---------------------------- MODULE Spec2Model ----------------------------
(***************************************************************************)
(* NatureID: the species-matching pipeline.                                *)
(*                                                                         *)
(*   identify handler      src/pages/api/identify.js                       *)
(*   identifyWithOpenRouter src/unnamed/part_005 (utils/openRouterApi)     *)
(*   candidate matcher     src/utils/inaturalistAPI.js                     *)
(*   regions               src/unnamed/part_004                            *)
(*   camera components     src/unnamed/part_000, CameraCapture.js          *)
(*                                                                         *)
(* Spec is one request, SpecTwo two requests on one server, SpecScore and  *)
(* SpecPure functions on their own, SpecCamera the camera components.      *)
(*                                                                         *)
(* Scores are kept in hundredths (0.3 is 30, 0.05 is 5): every constant of *)
(* calculateMatchScore is a multiple of 0.05, so the arithmetic is exact.  *)
(* Coordinates are kept in tenths of a degree (-9.5 is -95).               *)
(* Free text is a set of lower-case words; s.includes(w) is w \in s.       *)
(***************************************************************************)
EXTENDS Integers, Sequences, FiniteSets, TLC

VARIABLES
    pc,           \* where the request is: "idle", "awaitPrimary", ..., "done"
    req,          \* the request: method, image present, location
    token,        \* process.env.INATURALIST_API_TOKEN is set
    world,        \* which observation database answers the queries
    calls,        \* the models called on the AI endpoint, in order
    responses,    \* the HTTP statuses received from the AI endpoint, in order
    currentModel, \* identifyWithOpenRouter: let currentModel
    data,         \* identifyWithOpenRouter: the parsed 2xx body, or NoData
    feats,        \* features: aiData.featureExtraction as rewritten, or NoFeatures
    match,        \* searchObservationsByFeatures: its local state
    result,       \* what identifyWithOpenRouter returned or threw
    http,         \* the handler's response: status and body
    history,      \* memoryDb: the history records
    scoreIn,      \* a function checked on its own: the arguments of one call, or NoCall
    scoreOut,     \* a function checked on its own: the value returned
    other,        \* the locals of a second request, suspended at an await
    clock,        \* Date.now(), in milliseconds
    camera        \* the state of the component that starts the camera

scoreVars == <<scoreIn, scoreOut>>

loopVars == <<other, clock>>

reqVars == <<pc, req, token, world, calls, responses, currentModel, data, feats,
             match, result, http, history>>

vars == <<pc, req, token, world, calls, responses, currentModel, data, feats,
          match, result, http, history, scoreIn, scoreOut, other, clock, camera>>

(***************************************************************************)
(* Small helpers                                                           *)
(***************************************************************************)
Min(a, b) == IF a <= b THEN a ELSE b

Max(a, b) == IF a >= b THEN a ELSE b

Range(s) == {s[i] : i \in 1..Len(s)}

\* String.prototype.toLowerCase on the words the model uses
Lower(w) ==
    CASE w = "Green" -> "green"
      [] w = "Metallic" -> "metallic"
      [] w = "Plantae" -> "plantae"
      [] w = "Insecta" -> "insecta"
      [] w = "Animalia" -> "animalia"
      [] w = "Fungi" -> "fungi"
      [] OTHER -> w

(***************************************************************************)
(* Locations                                                               *)
(***************************************************************************)
NoLocation == [present |-> FALSE, hasCoords |-> FALSE, lat |-> 0, lng |-> 0, name |-> ""]

LocNoCoords == [present |-> TRUE, hasCoords |-> FALSE, lat |-> 0, lng |-> 0, name |-> ""]

LocManaus == [present |-> TRUE, hasCoords |-> TRUE, lat |-> -31, lng |-> -600, name |-> "Manaus"]

LocRio == [present |-> TRUE, hasCoords |-> TRUE, lat |-> -229, lng |-> -432, name |-> ""]

LocParis == [present |-> TRUE, hasCoords |-> TRUE, lat |-> 488, lng |-> 23, name |-> ""]

Locations == {NoLocation, LocNoCoords, LocManaus, LocRio, LocParis}

\* isInAmazon(lat, lng)
isInAmazon(lat, lng) == lat >= -95 /\ lat <= 50 /\ lng >= -790 /\ lng <= -500

(***************************************************************************)
(* calculateMatchScore                                                     *)
(***************************************************************************)
\* observations.some(obs => obs.geojson && isInAmazon(...))
SomeObsInAmazon(observations) ==
    \E i \in 1..Len(observations) :
        observations[i].geo /\ isInAmazon(observations[i].lat, observations[i].lng)

\* Fator 1: observations near the location
GeoBonus(observations, location) ==
    IF location.present /\ Len(observations) > 0
    THEN Min(40, Len(observations) * 5)
         + (IF location.hasCoords
               /\ isInAmazon(location.lat, location.lng)
               /\ SomeObsInAmazon(observations)
            THEN 25 ELSE 0)
    ELSE 0

\* Fator 2: the condition of the category bonus
CategoryMatches(taxon, features) ==
    /\ taxon.iconic # ""
    /\ features.category # ""
    /\ \/ Lower(taxon.iconic) = "plantae" /\ Lower(features.category) = "plant"
       \/ Lower(taxon.iconic) # "plantae" /\ Lower(features.category) = "animal"

CategoryBonus(taxon, features) == IF CategoryMatches(taxon, features) THEN 15 ELSE 0

\* the number of entries of a list of words found in the taxon's text
CountIn(ws, text) == Cardinality({i \in 1..Len(ws) : Lower(ws[i]) \in text})

\* visualMatchCount
VisualMatchCount(taxon, features) ==
    2 * CountIn(features.colors, taxon.words)
    + CountIn(features.patterns, taxon.words)
    + 2 * CountIn(features.distinctive, taxon.words)

\* visualMismatchCount
VisualMismatchCount(taxon, features) ==
    (IF CountIn(features.colors, taxon.words) = 0 /\ Len(features.colors) > 1
     THEN 5 ELSE 0)
    + (Len(features.distinctive) - CountIn(features.distinctive, taxon.words))

\* Fator 3: visual bonus minus visual penalty
VisualAdjust(taxon, features) ==
    IF features.hasVisual
    THEN Min(40, VisualMatchCount(taxon, features) * 10)
         - Min(70, VisualMismatchCount(taxon, features) * 15)
    ELSE 0

\* Fator 4: taxonomic specificity and binomial name
RankAdjust(taxon) ==
    IF taxon.rank_level # 0
    THEN (CASE taxon.rank_level <= 30 -> -40
            [] taxon.rank_level > 30 /\ taxon.rank_level <= 40 -> -20
            [] taxon.rank_level >= 70 -> 50
            [] taxon.rank_level >= 60 /\ taxon.rank_level < 70 -> 30
            [] taxon.rank_level >= 50 /\ taxon.rank_level < 60 -> 15
            [] OTHER -> 0)
         + (IF taxon.binomial THEN 20 ELSE 0)
    ELSE 0

\* the score accumulated by the four factors, before the override
AccumulatedScore(taxon, observations, features, location) ==
    30 + GeoBonus(observations, location)
       + CategoryBonus(taxon, features)
       + VisualAdjust(taxon, features)
       + RankAdjust(taxon)

\* colors.length > 1 || patterns.length > 0
HasVisualDetail(features) ==
    features.hasVisual /\ (Len(features.colors) > 1 \/ Len(features.patterns) > 0)

\* Override with the two amounts exchanged
OverrideSwapped(taxon, features, score) ==
    IF taxon.rank_level <= 30 /\ HasVisualDetail(features) THEN Max(0, score - 80)
    ELSE IF taxon.rank_level <= 40 /\ HasVisualDetail(features) THEN Max(0, score - 90)
    ELSE score

\* the severe-genericity override
Override(taxon, features, score) ==
    IF taxon.rank_level <= 30 /\ HasVisualDetail(features) THEN Max(0, score - 90)
    ELSE IF taxon.rank_level <= 40 /\ HasVisualDetail(features) THEN Max(0, score - 80)
    ELSE score

\* the region-implausibility penalty
RegionPenalty(taxon, observations, location, score) ==
    IF /\ location.present /\ location.hasCoords
       /\ isInAmazon(location.lat, location.lng)
       /\ ~(taxon.hasName /\ taxon.amazonText)
       /\ taxon.rank_level >= 50
       /\ ~SomeObsInAmazon(observations)
    THEN score - 70
    ELSE score

\* Clamp without the upper limit
ClampBelowOnly(score) == Max(0, score)

\* Math.min(1, Math.max(0, score))
Clamp(score) == Min(100, Max(0, score))

calculateMatchScore(taxon, observations, features, location) ==
    Clamp(RegionPenalty(taxon, observations, location,
            Override(taxon, features,
                AccumulatedScore(taxon, observations, features, location))))

(***************************************************************************)
(* The AI endpoint: models and responses                                   *)
(***************************************************************************)
PRIMARY == "google/gemini-2.0-flash-exp:free"

BACKUP == "deepseek/deepseek-chat-v3-0324:free"

\* the HTTP statuses the AI endpoint answers with
Statuses == {200, 401, 402, 429, 500}

\* response.ok
Ok(status) == status >= 200 /\ status <= 299

\* response.status === 429 || response.status === 402
IsLimitStatus(status) == status = 429 \/ status = 402

\* The text of a non-2xx response: whether JSON.parse accepts it, the
\* error.code it carries (0: none), whether it holds an error.message, and
\* whether the text includes 'rate limit' or 'credits'.
ErrBodies ==
    { [json |-> FALSE, code |-> 0, hasMsg |-> FALSE, rate |-> FALSE],
      [json |-> FALSE, code |-> 0, hasMsg |-> FALSE, rate |-> TRUE],
      [json |-> TRUE, code |-> 0, hasMsg |-> FALSE, rate |-> FALSE],
      [json |-> TRUE, code |-> 0, hasMsg |-> TRUE, rate |-> FALSE],
      [json |-> TRUE, code |-> 429, hasMsg |-> TRUE, rate |-> TRUE],
      [json |-> TRUE, code |-> 402, hasMsg |-> FALSE, rate |-> FALSE],
      [json |-> TRUE, code |-> 500, hasMsg |-> TRUE, rate |-> TRUE] }

(***************************************************************************)
(* The features the AI extracts (aiData.featureExtraction)                 *)
(***************************************************************************)
NoSpecific == [present |-> FALSE, taxon |-> "", level |-> "", scientificName |-> ""]

NoFeatures ==
    [present |-> FALSE, category |-> "", hasVisual |-> FALSE, colors |-> <<>>,
     patterns |-> <<>>, structures |-> <<>>, distinctive |-> <<>>,
     hintsPresent |-> FALSE, hints |-> <<>>,
     termsPresent |-> FALSE, searchTerms |-> <<>>,
     specific |-> NoSpecific, amazonSpecies |-> <<>>, confidence |-> 0]

\* scenario C: nothing to search for
FeatEmpty == [NoFeatures EXCEPT !.present = TRUE, !.category = "plant",
              !.termsPresent = TRUE, !.hintsPresent = TRUE]

\* nothing to search for, the AI reports its confidence
FeatEmptyConfident == [FeatEmpty EXCEPT !.confidence = 85]

\* scenario A: a white and yellow orchid
FeatOrchid ==
    [NoFeatures EXCEPT !.present = TRUE, !.category = "plant", !.hasVisual = TRUE,
        !.colors = <<"white", "yellow">>,
        !.termsPresent = TRUE, !.searchTerms = <<"orchid">>]

\* scenario B: a metallic green horned beetle
FeatBeetle ==
    [NoFeatures EXCEPT !.present = TRUE, !.category = "insect", !.hasVisual = TRUE,
        !.colors = <<"Metallic", "green">>, !.distinctive = <<"horn">>,
        !.structures = <<"pronotum">>,
        !.hintsPresent = TRUE, !.hints = <<"Insecta", "Coleoptera", "Scarabaeidae">>,
        !.termsPresent = TRUE, !.searchTerms = <<"dung beetle", "scarab">>,
        !.confidence = 85]

\* a species named by the AI, with Amazonian species guesses
FeatSpecific ==
    [NoFeatures EXCEPT !.present = TRUE, !.category = "insect", !.hasVisual = TRUE,
        !.colors = <<"brown">>, !.patterns = <<"striped">>,
        !.distinctive = <<"horn", "large">>, !.structures = <<"thorax">>,
        !.termsPresent = TRUE, !.searchTerms = <<"rhinoceros beetle">>,
        !.specific = [present |-> TRUE, taxon |-> "Hercules beetle", level |-> "species",
                      scientificName |-> "Dynastes hercules"],
        !.amazonSpecies = <<"Titanus giganteus", "Megasoma actaeon", "Phanaeus lancifer">>]

\* a genus named by the AI and nothing else: no searchTerms, no visualFeatures
FeatGenusOnly ==
    [NoFeatures EXCEPT !.present = TRUE, !.category = "animal",
        !.specific = [present |-> TRUE, taxon |-> "Panthera", level |-> "genus",
                      scientificName |-> ""]]

\* an animal with three search terms and three hints
FeatAnimal ==
    [NoFeatures EXCEPT !.present = TRUE, !.category = "animal", !.hasVisual = TRUE,
        !.colors = <<"brown">>, !.distinctive = <<"spots">>,
        !.hintsPresent = TRUE, !.hints = <<"Mammalia", "Carnivora", "Felidae">>,
        !.termsPresent = TRUE, !.searchTerms = <<"jaguar", "big cat", "feline">>,
        !.specific = [present |-> TRUE, taxon |-> "Felidae", level |-> "family",
                      scientificName |-> "Felidae"],
        !.confidence = 85]

FeatureCases == {FeatEmpty, FeatEmptyConfident, FeatOrchid, FeatBeetle, FeatSpecific,
                 FeatGenusOnly, FeatAnimal}

(***************************************************************************)
(* The body of a 2xx response of the AI endpoint                           *)
(*   json     JSON.parse accepts the response text                         *)
(*   err      data.error: "none", or a code 429 or 402, or a message that  *)
(*            includes 'rate limit' or 'credits', or "other"               *)
(*   content  data.choices[0].message.content:                             *)
(*     "nochoices"  no choices            "empty"   no content             *)
(*     "nojson"     text without braces    "badjson" braces, not JSON      *)
(*     "object"     a JSON object with neither key                         *)
(*     "ident"      a JSON object with identification only                 *)
(*     "features"   a JSON object with featureExtraction only              *)
(*     "both"       a JSON object with both keys                           *)
(*   plant    the content text includes 'plant'                            *)
(*   feat     the featureExtraction object                                 *)
(***************************************************************************)
NoData == [json |-> FALSE, err |-> "none", content |-> "nochoices", plant |-> FALSE,
           feat |-> NoFeatures]

Body(err, content, plant, feat) ==
    [json |-> TRUE, err |-> err, content |-> content, plant |-> plant, feat |-> feat]

ErrKinds == {"code429", "code402", "rateMsg", "creditsMsg", "other"}

OkBodies ==
    {NoData}
    \cup {Body("none", c, FALSE, NoFeatures) :
            c \in {"nochoices", "empty", "nojson", "badjson", "object", "ident"}}
    \cup {Body("none", "nojson", TRUE, NoFeatures)}
    \cup {Body("none", "features", f.category = "plant", f) : f \in FeatureCases}
    \cup {Body("none", "both", TRUE, FeatOrchid)}
    \cup {Body(e, "nochoices", FALSE, NoFeatures) : e \in ErrKinds}
    \cup {Body(e, "features", TRUE, FeatEmpty) : e \in {"code429", "other"}}

\* the content holds a JSON object with a featureExtraction key
HasFeatureExtraction(d) == d.content \in {"features", "both"}

\* the content holds a JSON object with an identification key
HasIdentification(d) == d.content \in {"ident", "both"}

(***************************************************************************)
(* identifyWithOpenRouter: the rewriting of the extracted features         *)
(***************************************************************************)
\* h.toLowerCase().includes('insect')
MentionsInsect(h) == h \in {"Insecta", "insect"}

\* h.toLowerCase().includes('plant')
MentionsPlant(h) == h \in {"Plantae", "plant"}

\* h.toLowerCase().includes('beetle') || h.toLowerCase().includes('coleoptera')
MentionsBeetle(h) == h \in {"Coleoptera", "beetle"}

\* lat >= -30 && lat <= -5 && lng >= -55 && lng <= -35
isInAtlanticForest(lat, lng) == lat >= -300 /\ lat <= -50 /\ lng >= -550 /\ lng <= -350

\* lat >= -24 && lat <= -5 && lng >= -60 && lng <= -42
isInCerrado(lat, lng) == lat >= -240 /\ lat <= -50 /\ lng >= -600 /\ lng <= -420

AmazonTerms == <<"amazon", "amazonia", "amazonian", "rainforest">>

AmazonInsectTerms ==
    <<"amazon insect", "amazonian beetle", "amazon beetle", "coleoptera amazonia",
      "scarabaeidae", "cerambycidae", "dynastinae", "buprestidae", "insetos da amazonia">>

AmazonPlantTerms == <<"amazon flora", "amazonian plant", "rainforest plant", "plantas da amazonia">>

AtlanticTerms == <<"atlantic forest", "mata atlantica">>

\* searchTerms after the unshift of the AI's specific identification
TermsWithSpecific(f) ==
    IF f.specific.present
    THEN (IF f.specific.scientificName # "" THEN <<f.specific.scientificName>> ELSE <<>>)
         \o <<f.specific.taxon>> \o f.searchTerms
    ELSE f.searchTerms

\* searchTerms after the unshift of amazonianSpeciesMatch.possibleSpecies
TermsWithAmazonSpecies(f) == f.amazonSpecies \o TermsWithSpecific(f)

\* the terms pushed for the region of the location
RegionTerms(f, location) ==
    (IF location.name # "" THEN <<location.name>> ELSE <<>>)
    \o (IF isInAmazon(location.lat, location.lng)
        THEN AmazonTerms
             \o (IF f.category = "insect"
                    \/ (f.hintsPresent /\ \E i \in 1..Len(f.hints) : MentionsInsect(f.hints[i]))
                 THEN AmazonInsectTerms
                 ELSE IF f.category = "plant"
                         \/ (f.hintsPresent /\ \E i \in 1..Len(f.hints) : MentionsPlant(f.hints[i]))
                 THEN AmazonPlantTerms
                 ELSE <<>>)
        ELSE IF isInAtlanticForest(location.lat, location.lng) THEN AtlanticTerms
        ELSE <<>>)

\* features as handed to searchObservationsByFeatures
RewriteFeatures(f, location) ==
    LET present == f.termsPresent \/ f.specific.present \/ Len(f.amazonSpecies) > 0
        terms == TermsWithAmazonSpecies(f)
    IN  [f EXCEPT
            !.termsPresent = present,
            !.searchTerms =
                IF present /\ location.present /\ location.hasCoords
                THEN terms \o RegionTerms(f, location)
                ELSE terms]

(***************************************************************************)
(* identifyWithOpenRouter: what it returns or throws                       *)
(***************************************************************************)
NoMsg == [text |-> "", status |-> 0]

\* a name given as text (by the AI or by the code), not taken from a taxon
NameText(text) == [kind |-> "text", id |-> 0, text |-> text]

NoResult ==
    [kind |-> "none", category |-> "", name |-> NameText(""),
     scientificName |-> NameText(""),
     taxonomicLevel |-> "", confidence |-> 0, description |-> "", status |-> "",
     modelUsed |-> "", featuresUsed |-> NoFeatures, suggestions |-> <<>>,
     taxonId |-> 0, aiSpecificID |-> FALSE, msg |-> NoMsg]

\* throw new Error(text), the text holding the HTTP status when status # 0
Throw(text, status) == [NoResult EXCEPT !.kind = "throw", !.msg = [text |-> text, status |-> status]]

\* return { identification: { category: 'error', name, description, ... } }
ErrorResult(name, description) ==
    [NoResult EXCEPT !.kind = "return", !.category = "error",
        !.name = NameText(name), !.scientificName = NameText("N/A"),
        !.description = description]

DescRateAllModels ==
    "The API rate limit has been exceeded for all available models. Please try again later."

DescUsageLimit == "The API usage limit has been reached. Please try again later."

DescUsageAllModels ==
    "The usage limit has been reached for all available AI models. Please try again later."

DescBackupFailed ==
    "Failed to use backup model after primary model rate limit was exceeded."

DescApiError == "The OpenRouter API returned an error."

DescInvalid == "The API returned an unexpected response format."

DescEmpty == "The AI service returned an empty response."

\* the descriptions that tell the user to try again later
RetryGuidance(description) ==
    description \in {DescRateAllModels, DescUsageLimit, DescUsageAllModels}

\* if (!response.ok) { ... }: the outcome for a non-2xx status and its text
NonOkOutcome(status, body, model) ==
    IF body.json /\ (body.code = 429 \/ status = 429 \/ body.code = 402 \/ status = 402)
    THEN IF model = BACKUP
         THEN ErrorResult("Rate Limit Exceeded", DescRateAllModels)
         ELSE ErrorResult("API Usage Limit Reached", DescUsageLimit)
    ELSE \* catch (parseError): JSON.parse threw, or the throw of the try block
         IF body.rate \/ status = 429 \/ status = 402
         THEN IF model = BACKUP
              THEN ErrorResult("API Usage Limit Reached", DescUsageAllModels)
              ELSE ErrorResult("API Usage Limit Reached", DescUsageLimit)
         ELSE Throw("OpenRouter API error", status)

\* an error result in place of the fallback
FallbackAsError(d, model) == ErrorResult("Invalid Response", DescInvalid)

\* the fallback of the last try block
Fallback(d, model) ==
    [NoResult EXCEPT !.kind = "return",
        !.category = IF d.plant THEN "plant" ELSE "animal",
        !.name = NameText("Unknown Species"), !.scientificName = NameText("N/A"),
        !.confidence = 50,
        !.modelUsed = model]

\* identificationData of the older answer format, tagged with the model
LegacyIdentification(d, model) ==
    [NoResult EXCEPT !.kind = "return", !.category = "animal",
        !.name = NameText("AI identification"),
        !.scientificName = NameText("AI identification"),
        !.confidence = 90, !.modelUsed = model]

\* from "if (!data.choices || !data.choices.length)" to the end
LegacyTail(d, model) ==
    CASE d.content = "nochoices" -> ErrorResult("Invalid Response", DescInvalid)
      [] d.content = "empty" -> ErrorResult("Empty Response", DescEmpty)
      [] HasIdentification(d) -> LegacyIdentification(d, model)
      [] OTHER -> Fallback(d, model)

\* data.error says rate limit or credits (the test before the backup call)
ErrIsLimit(d) == d.err \in {"code429", "code402", "rateMsg", "creditsMsg"}

\* data.error.code === 429 || data.error.message?.includes('rate limit')
ErrIsRateLimit(d) == d.err \in {"code429", "rateMsg"}

(***************************************************************************)
(* The observation database (iNaturalist) as the matcher sees it           *)
(***************************************************************************)
NTaxa == 30

MaxFail == 1

Worlds == {"empty", "small", "big"}

RankTable == <<70, 60, 40, 30, 50, 70, 20>>

IconicTable == <<"Plantae", "Insecta", "Animalia">>

WordTable == <<{}, {"green"}, {"white", "yellow"}, {"metallic", "green", "horn", "brown"}>>

\* the taxon record the database holds under an id
Taxon(id) ==
    LET r == RankTable[(id % 7) + 1]
    IN  [id |-> id, rank_level |-> r, iconic |-> IconicTable[(id % 3) + 1],
         binomial |-> (r >= 70), hasName |-> TRUE, amazonText |-> (id % 2 = 0),
         hasCommon |-> (id % 5 # 0), words |-> WordTable[(id % 4) + 1]]

TermCode(term) ==
    CASE term = "orchid" -> 1
      [] term = "dung beetle" -> 2
      [] term = "scarab" -> 3
      [] term = "Titanus giganteus" -> 4
      [] term = "Megasoma actaeon" -> 5
      [] term = "Phanaeus lancifer" -> 6
      [] term = "Panthera" -> 7
      [] term = "Felidae" -> 8
      [] term = "jaguar" -> 9
      [] term = "Insecta" -> 10
      [] term = "Coleoptera" -> 11
      [] term = "Mammalia" -> 12
      [] term = "Carnivora" -> 13
      [] term = "Manaus" -> 14
      [] term = "amazon" -> 15
      [] term = "amazonia" -> 16
      [] term = "atlantic forest" -> 17
      [] term = "mata atlantica" -> 18
      [] term = "Dynastes hercules" -> 19
      [] OTHER -> 0

TaxonIdAt(n) == ((n - 1) % NTaxa) + 1

FirstN(s, n) == SubSeq(s, 1, Min(n, Len(s)))

\* data.results of GET /taxa?q=<query>&per_page=<perPage> in a world
DB(w, q) ==
    LET c == TermCode(q.term)
        base == 5 * (2 * c + (IF q.prefix THEN 1 ELSE 0))
    IN  IF w = "empty" \/ c = 0 THEN <<>>
        ELSE IF w = "small"
        THEN (IF q.prefix THEN <<TaxonIdAt(c + 1)>> ELSE <<TaxonIdAt(c), TaxonIdAt(c + 1)>>)
        ELSE FirstN([i \in 1..5 |-> TaxonIdAt(base + i)], q.perPage)

\* data.results of GET /observations for a taxon: the number of observations
\* and where they lie depend on the taxon and on the location asked for
ObservationsOf(id, location) ==
    IF location.present /\ location.hasCoords
    THEN [i \in 1..(3 * (id % 4)) |->
            IF isInAmazon(location.lat, location.lng)
            THEN [geo |-> TRUE, lat |-> -20, lng |-> -610]
            ELSE [geo |-> TRUE, lat |-> location.lat, lng |-> location.lng]]
    ELSE [i \in 1..(id % 3) |-> [geo |-> TRUE, lat |-> 400, lng |-> -30]]

(***************************************************************************)
(* searchObservationsByFeatures: helpers                                   *)
(***************************************************************************)
\* the words of colors, patterns, structures and distinctiveFeatures
VisualDescription(f) ==
    {Lower(w) : w \in Range(f.colors) \cup Range(f.patterns)
                      \cup Range(f.structures) \cup Range(f.distinctive)}

\* checkForKnownAmazonianBeetles
checkForKnownAmazonianBeetles(f, location) ==
    LET isAmazonian == location.present /\ location.hasCoords
                          /\ isInAmazon(location.lat, location.lng)
        isInsect == f.category = "insect"
                    \/ (f.hintsPresent
                        /\ \E i \in 1..Len(f.hints) :
                              MentionsInsect(f.hints[i]) \/ MentionsBeetle(f.hints[i]))
        v == VisualDescription(f)
    IN  IF (~isAmazonian /\ location.present) \/ ~isInsect THEN <<>>
        ELSE (IF "metallic" \in v /\ v \cap {"green", "blue", "bronze"} # {}
                 /\ v \cap {"horn", "pronotum", "abdomen"} # {}
              THEN <<"Phanaeus lancifer">> ELSE <<>>)
          \o (IF v \cap {"horn", "rhinoceros"} # {} /\ "large" \in v
                 /\ v \cap {"black", "brown"} # {}
              THEN <<"Dynastes hercules">> ELSE <<>>)
          \o (IF "horn" \in v /\ v \cap {"pronotum", "thorax"} # {}
                 /\ v \cap {"black", "brown"} # {}
              THEN <<"Megasoma actaeon">> ELSE <<>>)
          \o (IF "large" \in v /\ v \cap {"titan", "gigant"} # {}
                 /\ v \cap {"brown", "mandible"} # {}
              THEN <<"Titanus giganteus">> ELSE <<>>)
          \o (IF v \cap {"snout", "rostrum"} # {} /\ "elongated" \in v
              THEN <<"Curculionidae">> ELSE <<>>)
          \o (IF v \cap {"long antennae", "longhorn"} # {}
                 /\ v \cap {"cylindrical", "elongated"} # {}
              THEN <<"Cerambycidae">> ELSE <<>>)

PrimaryColorNames ==
    {"black", "white", "red", "blue", "green", "yellow", "orange", "brown", "gray",
     "purple", "metallic"}

\* primaryColors: the basic colors found in visualFeatures.colors
PrimaryColors(f) ==
    IF f.hasVisual
    THEN SelectSeq([i \in 1..Len(f.colors) |-> Lower(f.colors[i])],
                   LAMBDA c : c \in PrimaryColorNames)
    ELSE <<>>

\* regionPrefix is not empty
HasRegionPrefix(location) ==
    /\ location.present /\ location.hasCoords
    /\ \/ isInAmazon(location.lat, location.lng)
       \/ isInAtlanticForest(location.lat, location.lng)
       \/ isInCerrado(location.lat, location.lng)

\* the queries pushed for a list of words: with the region prefix, then without
RECURSIVE QueriesFor(_, _)
QueriesFor(ws, prefixed) ==
    IF ws = <<>> THEN <<>>
    ELSE (IF prefixed THEN <<[prefix |-> TRUE, term |-> Head(ws), perPage |-> 5]>> ELSE <<>>)
         \o <<[prefix |-> FALSE, term |-> Head(ws), perPage |-> 5]>>
         \o QueriesFor(Tail(ws), prefixed)

\* searchPromises: one taxon search per query, first 3 terms and first 2 hints
SearchQueries(f, location) ==
    QueriesFor(FirstN(f.searchTerms, 3), HasRegionPrefix(location))
    \o QueriesFor(FirstN(f.hints, 2), HasRegionPrefix(location))

RECURSIVE Flat(_)
Flat(ss) == IF ss = <<>> THEN <<>> ELSE Head(ss) \o Flat(Tail(ss))

\* forEach(taxon => if unseen: allTaxa.unshift(taxon)), one taxon after the other
RECURSIVE UnshiftUnseen(_, _)
UnshiftUnseen(all, new) ==
    IF new = <<>> THEN all
    ELSE IF Head(new) \in Range(all) THEN UnshiftUnseen(all, Tail(new))
    ELSE UnshiftUnseen(<<Head(new)>> \o all, Tail(new))

\* forEach(taxon => if unseen: allTaxa.push(taxon))
RECURSIVE PushUnseen(_, _)
PushUnseen(all, new) ==
    IF new = <<>> THEN all
    ELSE IF Head(new) \in Range(all) THEN PushUnseen(all, Tail(new))
    ELSE PushUnseen(Append(all, Head(new)), Tail(new))

\* allTaxa: the beetle results unshifted, then the generic results pushed
MergeTaxa(beetleResults, searchResults) ==
    PushUnseen(UnshiftUnseen(<<>>, Flat(beetleResults)), Flat(searchResults))

\* the subsets of S with at most k elements
RECURSIVE SubsetsUpTo(_, _)
SubsetsUpTo(S, k) ==
    IF k = 0 THEN {{}}
    ELSE LET smaller == SubsetsUpTo(S, k - 1)
         IN  smaller \cup {A \cup {x} : A \in smaller, x \in S}

PoolCap == 20

ShownObservations == 5

\* one entry of taxaWithObservations
Candidate(id, f, location) ==
    LET observations == ObservationsOf(id, location)
    IN  [id |-> id,
         observations |-> Len(FirstN(observations, ShownObservations)),
         matchScore |-> calculateMatchScore(Taxon(id), observations, f, location)]

\* the loop left at the first fetch that throws
ScoredCandidatesAbort(allTaxa, failedFetch, f, location) ==
    LET pool == FirstN(allTaxa, PoolCap)
        before == Cardinality({i \in 1..Len(pool) :
                                 \A j \in 1..i : pool[j] \notin failedFetch})
    IN  [i \in 1..before |-> Candidate(pool[i], f, location)]

\* taxaWithObservations: the first 20 taxa of the pool whose fetch did not throw
ScoredCandidates(allTaxa, failedFetch, f, location) ==
    LET kept == SelectSeq(FirstN(allTaxa, PoolCap), LAMBDA id : id \notin failedFetch)
    IN  [i \in 1..Len(kept) |-> Candidate(kept[i], f, location)]

\* x placed ahead of the entries that score the same
InsertDescAhead(sorted, x) ==
    LET k == Cardinality({i \in 1..Len(sorted) : sorted[i].matchScore > x.matchScore})
    IN  SubSeq(sorted, 1, k) \o <<x>> \o SubSeq(sorted, k + 1, Len(sorted))

\* x placed behind the entries of a descending list that score at least as much
InsertDesc(sorted, x) ==
    LET k == Cardinality({i \in 1..Len(sorted) : sorted[i].matchScore >= x.matchScore})
    IN  SubSeq(sorted, 1, k) \o <<x>> \o SubSeq(sorted, k + 1, Len(sorted))

\* sort((a, b) => b.matchScore - a.matchScore): descending and stable
RECURSIVE SortDesc(_)
SortDesc(s) ==
    IF s = <<>> THEN <<>>
    ELSE InsertDesc(SortDesc(SubSeq(s, 1, Len(s) - 1)), s[Len(s)])

\* primaryColors.some(color => allText.includes(color))
ColorMatch(id, primaryColors) == Range(primaryColors) \cap Taxon(id).words # {}

\* the filter of searchObservationsByFeatures
KeepsCandidate(item, primaryColors) ==
    /\ ~(item.matchScore < 10)
    /\ ~(Len(primaryColors) > 0 /\ ~ColorMatch(item.id, primaryColors)
           /\ Len(primaryColors) > 1)

\* results: the filtered list, or the whole sorted list when nothing is left
MatcherResults(scored, f) ==
    LET sorted == SortDesc(scored)
        filtered == SelectSeq(sorted, LAMBDA item : KeepsCandidate(item, PrimaryColors(f)))
    IN  IF Len(filtered) > 0 THEN filtered ELSE sorted

(***************************************************************************)
(* identifyWithOpenRouter: the result for a database match                 *)
(***************************************************************************)
\* taxon.name
ScientificName(id) == [kind |-> "name", id |-> id, text |-> ""]

\* taxon.preferred_common_name || taxon.name
CommonOrName(id) ==
    IF Taxon(id).hasCommon THEN [kind |-> "common", id |-> id, text |-> ""]
    ELSE ScientificName(id)

\* taxon.rank || "Unknown"
RankName(id) ==
    LET r == Taxon(id).rank_level
    IN  CASE r >= 70 -> "species" [] r = 60 -> "genus" [] r = 50 -> "family"
          [] r = 40 -> "order" [] r = 30 -> "class" [] OTHER -> "phylum"

\* getCategory
getCategory(taxon) ==
    LET iconicName == Lower(taxon.iconic)
    IN  IF taxon.iconic = "" THEN "Unknown"
        ELSE IF iconicName = "plantae" THEN "plant"
        ELSE IF iconicName \in {"animalia", "actinopterygii", "amphibia", "arachnida",
                                "aves", "mammalia", "reptilia"} THEN "animal"
        ELSE IF iconicName = "fungi" THEN "fungus"
        ELSE "other"

RankAtLeast(ms, level) == SelectSeq(ms, LAMBDA m : Taxon(m.id).rank_level >= level)

\* the color filter: applied when at least 3 candidates are left by it
ColorFiltered(ms, f) ==
    LET compatible == SelectSeq(ms, LAMBDA m : ColorMatch(m.id, PrimaryColors(f)))
    IN  IF Len(PrimaryColors(f)) > 0 /\ Len(compatible) >= 3 THEN compatible ELSE ms

\* the taxonomic filter taking a tier of 2 members already
RankTierOfTwo(ms) ==
    IF Len(RankAtLeast(ms, 70)) >= 2 THEN RankAtLeast(ms, 70)
    ELSE IF Len(RankAtLeast(ms, 60)) >= 2 THEN RankAtLeast(ms, 60)
    ELSE IF Len(RankAtLeast(ms, 50)) >= 2 THEN RankAtLeast(ms, 50)
    ELSE ms

\* the taxonomic filter: species, else genus and above, else family and above
RankTier(ms) ==
    IF Len(RankAtLeast(ms, 70)) >= 3 THEN RankAtLeast(ms, 70)
    ELSE IF Len(RankAtLeast(ms, 60)) >= 3 THEN RankAtLeast(ms, 60)
    ELSE IF Len(RankAtLeast(ms, 50)) >= 3 THEN RankAtLeast(ms, 50)
    ELSE ms

\* the demotion of a generic first match behind the more specific ones
Demoted(ms) ==
    LET better == SelectSeq(ms, LAMBDA m : Taxon(m.id).rank_level > 40)
    IN  IF Len(ms) > 0 /\ Taxon(ms[1].id).rank_level <= 30 /\ Len(better) > 0
        THEN better \o SelectSeq(ms, LAMBDA m : Taxon(m.id).rank_level <= 40)
        ELSE ms

\* topMatches
TopMatches(results, f) ==
    FirstN(Demoted(RankTier(ColorFiltered(
        SelectSeq(results, LAMBDA m : m.matchScore > 5), f))), 10)

Suggestion(m) ==
    [name |-> CommonOrName(m.id), scientificName |-> ScientificName(m.id),
     rankLevel |-> Taxon(m.id).rank_level, confidence |-> m.matchScore,
     observations |-> m.observations, taxonId |-> m.id]

\* the object returned when inatResults.results is not empty
MatchResult(results, f) ==
    LET topMatch == results[1]
        top == Taxon(topMatch.id)
        isTooGeneric == top.rank_level <= 40 /\ f.hasVisual /\ Len(f.distinctive) > 0
        hasMoreSpecificID == f.specific.present /\ f.specific.level \in {"species", "genus"}
        useAI == isTooGeneric /\ hasMoreSpecificID
        topMatches == TopMatches(results, f)
        switch == top.rank_level <= 30 /\ Len(topMatches) > 1
                     /\ Taxon(topMatches[1].id).rank_level > 40
    IN  [NoResult EXCEPT
            !.kind = "return",
            !.category = getCategory(top),
            !.name = IF switch THEN CommonOrName(topMatches[1].id)
                     ELSE IF useAI THEN NameText(f.specific.taxon)
                     ELSE CommonOrName(topMatch.id),
            !.scientificName =
                     IF switch THEN ScientificName(topMatches[1].id)
                     ELSE IF useAI /\ f.specific.scientificName # ""
                     THEN NameText(f.specific.scientificName)
                     ELSE ScientificName(topMatch.id),
            !.taxonomicLevel =
                     IF switch THEN RankName(topMatches[1].id)
                     ELSE IF useAI THEN f.specific.level
                     ELSE RankName(topMatch.id),
            !.confidence = IF switch THEN topMatches[1].matchScore ELSE topMatch.matchScore,
            !.status = "success",
            !.featuresUsed = f,
            !.suggestions = [i \in 1..Len(topMatches) |-> Suggestion(topMatches[i])],
            !.taxonId = topMatch.id,
            !.aiSpecificID = useAI]

\* The else branch (no result) builds its object with
\*   visualFiltering: primaryColors && primaryColors.length > 0 ? ...
\* and primaryColors is a const of the if block, not in scope in the else
\* block: evaluating it throws a ReferenceError before anything is returned.
NoMatchBranchThrows == TRUE

\* the object the else branch would return if it did not throw
NoMatchResult(f) ==
    LET hasSpecificID == f.specific.present /\ f.specific.level \in {"species", "genus"}
    IN  [NoResult EXCEPT
            !.kind = "return",
            !.category = IF f.category # "" THEN f.category ELSE "Unknown",
            !.name = IF hasSpecificID THEN NameText(f.specific.taxon)
                     ELSE NameText("Unidentified"),
            !.scientificName = IF hasSpecificID /\ f.specific.scientificName # ""
                               THEN NameText(f.specific.scientificName)
                               ELSE NameText("Unknown"),
            !.taxonomicLevel = IF hasSpecificID THEN f.specific.level ELSE "Unknown",
            !.confidence = IF f.confidence # 0 THEN f.confidence
                           ELSE IF hasSpecificID THEN 70 ELSE 30,
            !.status = IF hasSpecificID THEN "success" ELSE "no_match",
            !.featuresUsed = f]

(***************************************************************************)
(* The request pipeline: one identification request, from the handler's    *)
(* entry to its response.  Every await on the AI endpoint or on the        *)
(* observation database is a step of its own.                              *)
(***************************************************************************)
\* calculateMatchScore is not being checked on its own
NoCall == [called |-> FALSE]

NoRequest == [method |-> "", image |-> FALSE, location |-> NoLocation]

NoHttp == [status |-> 0, message |-> ""]

\* no second request
NoOther == [pc |-> "none"]

\* no component is mounted
NoCamera == [component |-> "none"]

EmptyMatch ==
    [queries |-> <<>>, searchResults |-> <<>>, failedSearch |-> {}, threw |-> FALSE,
     beetles |-> <<>>, failedBeetle |-> {}, allTaxa |-> <<>>, failedFetch |-> {},
     scored |-> <<>>, results |-> <<>>, returned |-> FALSE]

Init ==
    /\ pc = "idle"
    /\ req = NoRequest
    /\ token \in BOOLEAN
    /\ world \in Worlds
    /\ calls = <<>>
    /\ responses = <<>>
    /\ currentModel = PRIMARY
    /\ data = NoData
    /\ feats = NoFeatures
    /\ match = EmptyMatch
    /\ result = NoResult
    /\ http = NoHttp
    /\ history = <<>>
    /\ scoreIn = NoCall
    /\ scoreOut = -1
    /\ other = NoOther
    /\ clock = 0
    /\ camera = NoCamera

\* handler: the method and image checks, then the first call of the cascade
\* (the API key handed to identifyWithOpenRouter is a literal of identify.js)
HandlerStart ==
    /\ pc = "idle"
    /\ \E method \in {"POST", "GET"}, image \in BOOLEAN, location \in Locations :
         /\ req' = [method |-> method, image |-> image, location |-> location]
         /\ IF method # "POST"
            THEN /\ http' = [status |-> 405, message |-> "Method not allowed"]
                 /\ pc' = "done"
                 /\ UNCHANGED calls
            ELSE IF ~image
            THEN /\ http' = [status |-> 400, message |-> "No image provided"]
                 /\ pc' = "done"
                 /\ UNCHANGED calls
            ELSE /\ calls' = Append(calls, PRIMARY)
                 /\ pc' = "awaitPrimary"
                 /\ UNCHANGED http
    /\ UNCHANGED <<token, world, responses, currentModel, data, feats, match, result,
                   history, scoreVars, loopVars, camera>>

\* the condition of the switch to the backup model
ShouldTryBackupAlways(status) == TRUE

ShouldTryBackup(status) == IsLimitStatus(status)

\* the primary model's response arrives; on 429 or 402 the backup is called
PrimaryResponse ==
    /\ pc = "awaitPrimary"
    /\ \E status \in Statuses :
         /\ responses' = Append(responses, [model |-> PRIMARY, status |-> status])
         /\ IF ShouldTryBackup(status)
            THEN /\ currentModel' = BACKUP
                 /\ calls' = Append(calls, BACKUP)
                 /\ pc' = "awaitBackup"
            ELSE /\ pc' = "readBody"
                 /\ UNCHANGED <<currentModel, calls>>
    /\ UNCHANGED <<req, token, world, data, feats, match, result, http, history, scoreVars, loopVars, camera>>

\* the backup model's response arrives; whatever its status, no further call
BackupResponse ==
    /\ pc = "awaitBackup"
    /\ \E status \in Statuses :
         responses' = Append(responses, [model |-> BACKUP, status |-> status])
    /\ pc' = "readBody"
    /\ UNCHANGED <<req, token, world, calls, currentModel, data, feats, match, result,
                   http, history, scoreVars, loopVars, camera>>

\* fetch rejects (no response at all): the error leaves identifyWithOpenRouter
FetchRejects ==
    /\ pc \in {"awaitPrimary", "awaitBackup"}
    /\ result' = Throw("fetch failed", 0)
    /\ pc' = "respond"
    /\ UNCHANGED <<req, token, world, calls, responses, currentModel, data, feats, match,
                   http, history, scoreVars, loopVars, camera>>

LastStatus == responses[Len(responses)].status

\* if (!response.ok): the text of the error response is read and classified
ReadErrorBody ==
    /\ pc = "readBody"
    /\ ~Ok(LastStatus)
    /\ \E body \in ErrBodies : result' = NonOkOutcome(LastStatus, body, currentModel)
    /\ pc' = "respond"
    /\ UNCHANGED <<req, token, world, calls, responses, currentModel, data, feats, match,
                   http, history, scoreVars, loopVars, camera>>

\* the text of a 2xx response is read and parsed; the features are extracted
ReadOkBody ==
    /\ pc = "readBody"
    /\ Ok(LastStatus)
    /\ \E body \in OkBodies :
         /\ data' = body
         /\ IF ~body.json
            THEN /\ result' = Throw("Failed to parse API response", 0)
                 /\ pc' = "respond"
                 /\ UNCHANGED feats
            ELSE IF HasFeatureExtraction(body)
            THEN /\ feats' = RewriteFeatures(body.feat, req.location)
                 /\ pc' = "search"
                 /\ UNCHANGED result
            ELSE /\ pc' = "legacy"
                 /\ UNCHANGED <<feats, result>>
    /\ UNCHANGED <<req, token, world, calls, responses, currentModel, match, http,
                   history, scoreVars, loopVars, camera>>

\* the sets of calls to the observation database that may fail in one step:
\* without the token every call throws, with it at most MaxFail of them do
FailureSets(S) == IF token THEN SubsetsUpTo(S, MaxFail) ELSE {S}

\* Promise.all(searchPromises): rejects as soon as one search rejects
SearchOutcome(queries, failed) ==
    IF failed # {}
    THEN [threw |-> TRUE, searchResults |-> <<>>]
    ELSE [threw |-> FALSE,
          searchResults |-> [i \in 1..Len(queries) |-> DB(world, queries[i])]]

\* searchObservationsByFeatures, Step 1: the generic searches.  A rejection
\* leaves the matcher and is caught by the catch of the feature block, which
\* only logs: the request goes on with the older answer format.
GenericSearches ==
    /\ pc = "search"
    /\ LET queries == SearchQueries(feats, req.location)
       IN  \E failed \in FailureSets(1..Len(queries)) :
             LET out == SearchOutcome(queries, failed)
             IN  /\ match' = [EmptyMatch EXCEPT !.queries = queries,
                                 !.failedSearch = failed, !.threw = out.threw,
                                 !.searchResults = out.searchResults]
                 /\ pc' = IF out.threw THEN "legacy" ELSE "beetles"
    /\ UNCHANGED <<req, token, world, calls, responses, currentModel, data, feats, result,
                   http, history, scoreVars, loopVars, camera>>

\* the searches for the known Amazonian beetles, each in its own try/catch,
\* then the merge of all results into allTaxa
BeetleSearches ==
    /\ pc = "beetles"
    /\ LET beetles == checkForKnownAmazonianBeetles(feats, req.location)
       IN  \E failed \in FailureSets(1..Len(beetles)) :
             LET beetleResults ==
                     [i \in 1..Len(beetles) |->
                         IF i \in failed THEN <<>>
                         ELSE DB(world, [prefix |-> FALSE, term |-> beetles[i], perPage |-> 3])]
             IN  match' = [match EXCEPT !.beetles = beetles, !.failedBeetle = failed,
                              !.allTaxa = MergeTaxa(beetleResults, match.searchResults)]
    /\ pc' = "fetch"
    /\ UNCHANGED <<req, token, world, calls, responses, currentModel, data, feats, result,
                   http, history, scoreVars, loopVars, camera>>

\* Step 2 to the end of searchObservationsByFeatures: the observations of the
\* first 20 taxa are fetched, the taxa scored, sorted and filtered.  With no
\* result, identifyWithOpenRouter takes its else branch, which throws; the
\* catch of the feature block logs and the request goes on.
FetchAndScore ==
    /\ pc = "fetch"
    /\ \E failed \in FailureSets(Range(FirstN(match.allTaxa, PoolCap))) :
         LET scored == ScoredCandidates(match.allTaxa, failed, feats, req.location)
             results == MatcherResults(scored, feats)
         IN  /\ match' = [match EXCEPT !.failedFetch = failed, !.scored = scored,
                             !.results = results, !.returned = TRUE]
             /\ IF Len(results) > 0
                THEN /\ pc' = "geodata"
                     /\ UNCHANGED result
                ELSE IF NoMatchBranchThrows
                THEN /\ pc' = "legacy"
                     /\ UNCHANGED result
                ELSE /\ pc' = "respond"
                     /\ result' = NoMatchResult(feats)
    /\ UNCHANGED <<req, token, world, calls, responses, currentModel, data, feats,
                   http, history, scoreVars, loopVars, camera>>

\* getTaxonGeographicData(topMatch.taxon.id): when it throws the catch of the
\* feature block logs; otherwise the database match is returned
GeoData ==
    /\ pc = "geodata"
    /\ \E failed \in FailureSets({match.results[1].id}) :
         IF failed # {}
         THEN /\ pc' = "legacy"
              /\ UNCHANGED result
         ELSE /\ pc' = "respond"
              /\ result' = MatchResult(match.results, feats)
    /\ UNCHANGED <<req, token, world, calls, responses, currentModel, data, feats, match,
                   http, history, scoreVars, loopVars, camera>>

\* from "if (data.error)" on: the older answer format
Legacy ==
    /\ pc = "legacy"
    /\ IF data.err # "none" /\ ErrIsLimit(data) /\ currentModel = PRIMARY
       THEN /\ currentModel' = BACKUP
            /\ calls' = Append(calls, BACKUP)
            /\ pc' = "awaitBackup2"
            /\ UNCHANGED result
       ELSE /\ result' = IF data.err = "none" THEN LegacyTail(data, currentModel)
                         ELSE IF ErrIsRateLimit(data)
                         THEN ErrorResult("Rate Limit Exceeded", DescRateAllModels)
                         ELSE ErrorResult("API Error", DescApiError)
            /\ pc' = "respond"
            /\ UNCHANGED <<currentModel, calls>>
    /\ UNCHANGED <<req, token, world, responses, data, feats, match, http, history,
                   scoreVars, loopVars, camera>>

\* the response to the backup call made for a data.error of the primary
Backup2Response ==
    /\ pc = "awaitBackup2"
    /\ \E status \in Statuses, body \in OkBodies :
         /\ responses' = Append(responses, [model |-> BACKUP, status |-> status])
         /\ IF Ok(status) /\ body.json
            THEN /\ data' = [body EXCEPT !.err = "none"]
                 /\ result' = LegacyTail(data', BACKUP)
            ELSE /\ result' = IF Ok(status) THEN ErrorResult("API Error", DescBackupFailed)
                              ELSE ErrorResult("Rate Limit Exceeded", DescRateAllModels)
                 /\ UNCHANGED data
    /\ pc' = "respond"
    /\ UNCHANGED <<req, token, world, calls, currentModel, feats, match, http, history,
                   scoreVars, loopVars, camera>>

\* fetch rejects on the second backup call: catch (backupError)
Backup2Rejects ==
    /\ pc = "awaitBackup2"
    /\ result' = ErrorResult("API Error", DescBackupFailed)
    /\ pc' = "respond"
    /\ UNCHANGED <<req, token, world, calls, responses, currentModel, data, feats, match,
                   http, history, scoreVars, loopVars, camera>>

\* the status the handler's catch gives a thrown error
ThrownStatus(msg) == IF msg.status \in {401, 402, 429} THEN msg.status ELSE 500

\* an error result answered as a success
ErrorResultStatusOk(r) == 200

\* the status the handler gives an error result
ErrorResultStatus(r) == IF r.name = NameText("Rate Limit Exceeded") THEN 429 ELSE 400

\* Date.now().toString(): the decimal digits of the millisecond count, most
\* significant first
DateToString(ms) ==
    LET digits[n \in 0..ms] == IF n < 10 THEN <<n>> ELSE Append(digits[n \div 10], n % 10)
    IN  digits[ms]

\* memoryDb.addToHistory is not among the sources; it is the History Store's
\* append(record) of the specification: the record goes to the end
addToHistory(records, historyItem) == Append(records, historyItem)

\* handler: what identifyWithOpenRouter returned or threw is answered
Respond ==
    /\ pc = "respond"
    /\ IF result.kind = "throw"
       THEN /\ http' = [status |-> ThrownStatus(result.msg), message |-> result.msg.text]
            /\ UNCHANGED history
       ELSE IF result.category = "error"
       THEN /\ http' = [status |-> ErrorResultStatus(result), message |-> result.description]
            /\ UNCHANGED history
       ELSE /\ history' = addToHistory(history, [id |-> DateToString(clock),
                                                 timestamp |-> clock,
                                                 location |-> req.location,
                                                 results |-> result,
                                                 type |-> result.category])
            /\ http' = [status |-> 200, message |-> ""]
    /\ pc' = "done"
    /\ UNCHANGED <<req, token, world, calls, responses, currentModel, data, feats, match,
                   result, scoreVars, loopVars, camera>>

Next ==
    \/ HandlerStart
    \/ PrimaryResponse
    \/ BackupResponse
    \/ FetchRejects
    \/ ReadErrorBody
    \/ ReadOkBody
    \/ GenericSearches
    \/ BeetleSearches
    \/ FetchAndScore
    \/ GeoData
    \/ Legacy
    \/ Backup2Response
    \/ Backup2Rejects
    \/ Respond

Spec == Init /\ [][Next]_vars

Done == pc = "done"

\* the request was answered 200 and recorded in the history
Answered200 == Done /\ http.status = 200 /\ Len(history) = 1 /\ history[1].results = result

(***************************************************************************)
(* The cascade of the two AI models                                        *)
(***************************************************************************)
\* C1: the calls to the AI endpoint are [primary] or [primary, backup]; the
\* backup call is made in a step where the only response received so far is
\* the primary's and it says 429 or 402 (as its status, or as the error of
\* its 2xx body); no third call is made
C1_CascadeSequence ==
    /\ [](calls \in {<<>>, <<PRIMARY>>, <<PRIMARY, BACKUP>>})
    /\ [][(calls' # calls /\ Len(calls') = 2) =>
            /\ Len(responses') = 1
            /\ responses'[1].model = PRIMARY
            /\ \/ IsLimitStatus(responses'[1].status)
               \/ Ok(responses'[1].status) /\ ErrIsLimit(data)]_vars
    /\ [][Len(calls) = 2 => calls' = calls]_vars

\* C1 witness: primary and backup both answered 429 or 402, the request is
\* over and the calls are [primary, backup]
C1_Witness ==
    /\ Done
    /\ calls = <<PRIMARY, BACKUP>>
    /\ Len(responses) = 2
    /\ IsLimitStatus(responses[1].status)
    /\ IsLimitStatus(responses[2].status)

\* primary and then backup both answered 429 or 402
BothModelsLimited ==
    /\ Len(responses) = 2
    /\ responses[1].model = PRIMARY /\ IsLimitStatus(responses[1].status)
    /\ responses[2].model = BACKUP /\ IsLimitStatus(responses[2].status)

\* C2: when primary and backup both answer 429 or 402, the handler answers
\* 429 with a message that tells the user to try again later
C2_BothLimitedAnswers429 ==
    (Done /\ BothModelsLimited) => (http.status = 429 /\ RetryGuidance(http.message))

(***************************************************************************)
(* Answers of the AI without the expected shape                            *)
(***************************************************************************)
\* the last 2xx body read holds a text with no parseable JSON object, or a
\* JSON object without the featureExtraction key
MalformedAnswer ==
    /\ data.json /\ data.err = "none"
    /\ data.content \in {"nojson", "badjson", "object", "ident"}

C4_MissingTokenIs401 ==
    (Done /\ ~token /\ Len(match.queries) > 0) => http.status = 401

\* C5: when one search of the fan-out fails and others succeed, the matcher
\* does not throw, and the searches' results are those of the successful
\* ones with an empty list for the failed one
C5_OneFailedSearchTolerated ==
    (token /\ Cardinality(match.failedSearch) = 1 /\ Len(match.queries) > 1) =>
        /\ ~match.threw
        /\ match.searchResults =
              [i \in 1..Len(match.queries) |->
                  IF i \in match.failedSearch THEN <<>> ELSE DB(world, match.queries[i])]

\* C6: the scored candidates are the first 20 taxa of the pool less those
\* whose fetch failed, in the pool's order, each with its score, and the
\* matcher returns
C6_FailedFetchSkipsOnlyThatTaxon ==
    (pc \in {"geodata", "legacy", "respond", "done"} /\ Len(match.allTaxa) > 0) =>
        LET pool == FirstN(match.allTaxa, PoolCap)
            kept == SelectSeq(pool, LAMBDA id : id \notin match.failedFetch)
        IN  /\ match.returned
            /\ Len(match.scored) = Len(kept)
            /\ \A i \in 1..Len(kept) :
                  /\ match.scored[i].id = kept[i]
                  /\ match.scored[i].matchScore =
                        calculateMatchScore(Taxon(kept[i]),
                            ObservationsOf(kept[i], req.location), feats, req.location)

\* C6 witness: a pool of more than 20 taxa, one fetch failed and not the
\* last one, 19 candidates scored
C6_Witness ==
    /\ match.returned
    /\ Len(match.allTaxa) > PoolCap
    /\ Cardinality(match.failedFetch) = 1
    /\ match.allTaxa[2] \in match.failedFetch
    /\ Len(match.scored) = PoolCap - 1

\* C7: when the search yields no taxon the handler answers 200 with a
\* no-match result that carries the features, with confidence 0.7 when the
\* AI named a species or a genus and 0.3 otherwise
C7_NoTaxaIsNoMatch ==
    (Done /\ token /\ match.returned /\ match.allTaxa = <<>>) =>
        /\ Answered200
        /\ result.featuresUsed = feats
        /\ result.confidence =
              (IF feats.specific.present /\ feats.specific.level \in {"species", "genus"}
               THEN 70 ELSE 30)

(***************************************************************************)
(* The merge, the filters and the ranking of the candidates                *)
(***************************************************************************)
\* the database match was returned and answered
MatchAnswered == Done /\ http.status = 200 /\ result.taxonId # 0

\* C11: the merged pool holds each taxon id once, in first-seen order with
\* the known-species results ahead of the generic ones, and merging the same
\* raw results again gives the same list
C11_MergeFirstSeenOrder ==
    match.returned =>
        LET beetleResults ==
                [i \in 1..Len(match.beetles) |->
                    IF i \in match.failedBeetle THEN <<>>
                    ELSE DB(world, [prefix |-> FALSE, term |-> match.beetles[i],
                                    perPage |-> 3])]
            raw == Flat(beetleResults) \o Flat(match.searchResults)
        IN  /\ Cardinality(Range(match.allTaxa)) = Len(match.allTaxa)
            /\ match.allTaxa = PushUnseen(<<>>, raw)
            /\ MergeTaxa(beetleResults, match.searchResults) = match.allTaxa

\* the matcher's filter left nothing and the unfiltered list was returned
FilterFellBack ==
    SelectSeq(match.scored, LAMBDA item : KeepsCandidate(item, PrimaryColors(feats))) = <<>>

\* C12: unless the matcher fell back to the unfiltered list, no candidate
\* with matchScore <= 0.1 is in the matcher's results or in the suggestions
C12_NoCandidateAtOrBelowThreshold ==
    (match.returned /\ ~FilterFellBack) =>
        /\ \A i \in 1..Len(match.results) : match.results[i].matchScore > 10
        /\ MatchAnswered =>
              \A i \in 1..Len(result.suggestions) : result.suggestions[i].confidence > 10

\* C13: whenever at least one candidate was scored, the list of suggestions
\* delivered with the database match is not empty
C13_DeliveredListNotEmpty ==
    (MatchAnswered /\ Len(match.scored) > 0) => Len(result.suggestions) > 0

\* C18: primary 429, then backup 200 with a successful result: the result
\* is tagged with the backup model
C18_BackupResultTagged ==
    (/\ Done /\ http.status = 200
     /\ Len(responses) = 2
     /\ responses[1] = [model |-> PRIMARY, status |-> 429]
     /\ responses[2] = [model |-> BACKUP, status |-> 200]) =>
        result.modelUsed = BACKUP

C22_StatusClasses ==
    (Done /\ req.method = "POST") =>
        /\ http.status \in {200, 400, 401, 429, 500}
        /\ http.status = 400 => ~req.image

\* C23, the case of an error reported in the response body: when the AI
\* endpoint answers 2xx with an error in the body that is not about rate
\* limit or credits, the caller receives status 500
C23_UpstreamErrorIs500 ==
    (/\ Done
     /\ Len(responses) > 0
     /\ Ok(LastStatus) /\ data.json /\ data.err = "other") =>
        http.status = 500

\* C25: a result that reports a database match has a non-empty list of
\* suggestions, and its name, scientific name, confidence and taxon id are
\* those of the first suggestion
C25_PrimaryIsFirstSuggestion ==
    MatchAnswered =>
        /\ Len(result.suggestions) > 0
        /\ result.name = result.suggestions[1].name
        /\ result.scientificName = result.suggestions[1].scientificName
        /\ result.confidence = result.suggestions[1].confidence
        /\ result.taxonId = result.suggestions[1].taxonId

\* C26: when the features carry specificIdentification.scientificName, that
\* name is the term of one of the queries sent to the taxon search
C26_ScientificNameQueried ==
    (/\ match.returned
     /\ Len(match.queries) > 0
     /\ feats.specific.present
     /\ feats.specific.scientificName # "") =>
        \/ \E i \in 1..Len(match.queries) :
              match.queries[i].term = feats.specific.scientificName
        \/ \E i \in 1..Len(match.beetles) :
              match.beetles[i] = feats.specific.scientificName

(***************************************************************************)
(* calculateMatchScore as a pure function: the inputs of one call are      *)
(* drawn in ScoreInit, CalcScore applies the function.                     *)
(***************************************************************************)
MaxObs == 9

RankLevels == {30, 35, 40, 50, 60, 70}

\* n observations; the first one lies in the Amazon box when inAmazon
ObsList(n, inAmazon) ==
    [i \in 1..n |->
        IF i = 1 /\ inAmazon
        THEN [geo |-> TRUE, lat |-> -20, lng |-> -610]
        ELSE [geo |-> (i # 2), lat |-> 400, lng |-> -30]]

ObsCounts == {0, 1, MaxObs - 1, MaxObs}

ScoreObservations == {ObsList(n, a) : n \in ObsCounts, a \in BOOLEAN}

TextCases == {{}, {"green", "metallic", "striped", "horn"}}

ScoreTaxa ==
    {[id |-> 1, rank_level |-> r, iconic |-> ic, binomial |-> b, hasName |-> TRUE,
      amazonText |-> a, words |-> w] :
        r \in RankLevels, ic \in {"", "Plantae", "Insecta"},
        b \in BOOLEAN, a \in BOOLEAN, w \in TextCases}

VisualCases ==
    { [hasVisual |-> FALSE, colors |-> <<>>, patterns |-> <<>>, distinctive |-> <<>>],
      [hasVisual |-> TRUE, colors |-> <<"Green">>, patterns |-> <<>>, distinctive |-> <<>>],
      [hasVisual |-> TRUE, colors |-> <<"red", "blue">>, patterns |-> <<>>,
       distinctive |-> <<"horn", "spots">>],
      [hasVisual |-> TRUE, colors |-> <<>>, patterns |-> <<"striped">>, distinctive |-> <<>>],
      [hasVisual |-> TRUE, colors |-> <<"green", "Metallic">>, patterns |-> <<"striped">>,
       distinctive |-> <<"horn">>] }

ScoreFeatures ==
    {[category |-> c, hasVisual |-> v.hasVisual, colors |-> v.colors,
      patterns |-> v.patterns, distinctive |-> v.distinctive] :
        c \in {"", "plant", "animal", "insect"}, v \in VisualCases}

ScoreLocations == {NoLocation, LocNoCoords, LocManaus, LocParis}

ScoreInit ==
    /\ scoreIn \in [called : {TRUE}, taxon : ScoreTaxa, observations : ScoreObservations,
                     features : ScoreFeatures, location : ScoreLocations]
    /\ scoreOut = -1
    /\ pc = "score"
    /\ req = NoRequest
    /\ token = TRUE
    /\ world = "empty"
    /\ calls = <<>>
    /\ responses = <<>>
    /\ currentModel = PRIMARY
    /\ data = NoData
    /\ feats = NoFeatures
    /\ match = EmptyMatch
    /\ result = NoResult
    /\ http = NoHttp
    /\ history = <<>>
    /\ other = NoOther
    /\ clock = 0
    /\ camera = NoCamera

CalcScore ==
    /\ scoreIn.called
    /\ scoreOut = -1
    /\ scoreOut' = calculateMatchScore(scoreIn.taxon, scoreIn.observations,
                                       scoreIn.features, scoreIn.location)
    /\ UNCHANGED <<scoreIn, reqVars, loopVars, camera>>

ScoreNext == CalcScore

SpecScore == ScoreInit /\ [][ScoreNext]_vars

ScoreDone == scoreIn.called /\ scoreOut # -1

\* the accumulated score of the call in scoreIn
ScoreInAccumulated ==
    AccumulatedScore(scoreIn.taxon, scoreIn.observations, scoreIn.features, scoreIn.location)

\* C8: every value calculateMatchScore returns lies in [0,1] (0..100 hundredths)
C8_ScoreInUnitInterval == ScoreDone => (scoreOut >= 0 /\ scoreOut <= 100)

\* C8 witness: a call whose unclamped accumulation is above 1 has returned
C8_Witness == ScoreDone /\ ScoreInAccumulated > 100 /\ scoreIn.taxon.rank_level >= 50

\* C9: for rank_level <= 30 (31..40) with at least 2 colors or 1 pattern, an
\* accumulated score above 0.9 is returned lowered by exactly 0.9 (0.8)
C9_OverrideAfterBonuses ==
    (ScoreDone /\ HasVisualDetail(scoreIn.features) /\ ScoreInAccumulated > 90) =>
        /\ scoreIn.taxon.rank_level <= 30 => scoreOut = ScoreInAccumulated - 90
        /\ (scoreIn.taxon.rank_level > 30 /\ scoreIn.taxon.rank_level <= 40)
              => scoreOut = ScoreInAccumulated - 80

\* C9 witness: a class-level taxon, two colors, accumulated above 0.9, scored
C9_Witness ==
    /\ ScoreDone
    /\ scoreIn.taxon.rank_level <= 30
    /\ Len(scoreIn.features.colors) >= 2
    /\ ScoreInAccumulated > 90
    /\ scoreOut = ScoreInAccumulated - 90

\* C10: the 0.15 category bonus is added exactly when taxon and features are
\* both plant, or both non-plant (any other iconic group, any other category)
C10_CategoryBonusSameCoarseClass ==
    ScoreDone =>
        LET t == scoreIn.taxon
            f == scoreIn.features
            sameClass == /\ t.iconic # "" /\ f.category # ""
                         /\ (Lower(t.iconic) = "plantae") = (Lower(f.category) = "plant")
        IN  (CategoryBonus(t, f) = 15) <=> sameClass


(***************************************************************************)
(* Regions: determineBioregion (src/unnamed/part_004) and the histogram    *)
(* of getTaxonGeographicData (src/utils/inaturalistAPI.js).                *)
(***************************************************************************)
\* const BIOREGIONS, bounds in tenths of a degree
BIOREGIONS ==
    << [name |-> "Amazonia", minLat |-> -95, maxLat |-> 50, minLng |-> -790, maxLng |-> -500],
       [name |-> "Atlantic Forest", minLat |-> -300, maxLat |-> -50, minLng |-> -550, maxLng |-> -350],
       [name |-> "Cerrado", minLat |-> -240, maxLat |-> -50, minLng |-> -600, maxLng |-> -420],
       [name |-> "Pantanal", minLat |-> -200, maxLat |-> -150, minLng |-> -580, maxLng |-> -540],
       [name |-> "Caatinga", minLat |-> -150, maxLat |-> -30, minLng |-> -450, maxLng |-> -370],
       [name |-> "Pampa", minLat |-> -330, maxLat |-> -280, minLng |-> -580, maxLng |-> -500],
       [name |-> "Eastern Deciduous Forests", minLat |-> 300, maxLat |-> 470, minLng |-> -950, maxLng |-> -700],
       [name |-> "Great Plains", minLat |-> 300, maxLat |-> 490, minLng |-> -1050, maxLng |-> -950],
       [name |-> "Western Mountains", minLat |-> 350, maxLat |-> 490, minLng |-> -1250, maxLng |-> -1050],
       [name |-> "Desert Southwest", minLat |-> 250, maxLat |-> 370, minLng |-> -1150, maxLng |-> -1000],
       [name |-> "Mediterranean Europe", minLat |-> 360, maxLat |-> 450, minLng |-> -50, maxLng |-> 200],
       [name |-> "Central European Forest", minLat |-> 450, maxLat |-> 540, minLng |-> -50, maxLng |-> 300],
       [name |-> "Boreal Europe", minLat |-> 550, maxLat |-> 700, minLng |-> 40, maxLng |-> 320],
       [name |-> "Tropical Asia", minLat |-> 0, maxLat |-> 230, minLng |-> 980, maxLng |-> 1400],
       [name |-> "Himalayan Region", minLat |-> 250, maxLat |-> 350, minLng |-> 700, maxLng |-> 950],
       [name |-> "Temperate East Asia", minLat |-> 300, maxLat |-> 500, minLng |-> 1000, maxLng |-> 1450],
       [name |-> "African Savanna", minLat |-> -200, maxLat |-> 150, minLng |-> 150, maxLng |-> 400],
       [name |-> "Australian Outback", minLat |-> -300, maxLat |-> -200, minLng |-> 1200, maxLng |-> 1400],
       [name |-> "Tropical Australia", minLat |-> -170, maxLat |-> -100, minLng |-> 1250, maxLng |-> 1450] >>

\* determineContinent: the first rectangle of the chain that holds the point
determineContinent(lat, lng) ==
    IF lat >= 150 /\ lat <= 750 /\ lng >= -1700 /\ lng <= -500 THEN "North America"
    ELSE IF lat <= 150 /\ lat >= -550 /\ lng >= -800 /\ lng <= -350 THEN "South America"
    ELSE IF lat >= 350 /\ lat <= 700 /\ lng >= -100 /\ lng <= 400 THEN "Europe"
    ELSE IF lat >= -350 /\ lat <= 370 /\ lng >= -200 /\ lng <= 600 THEN "Africa"
    ELSE IF lat >= -100 /\ lat <= 550 /\ lng >= 600 /\ lng <= 1500 THEN "Asia"
    ELSE IF lat <= -100 /\ lat >= -450 /\ lng >= 1100 /\ lng <= 1800 THEN "Australia"
    ELSE IF lat <= -600 THEN "Antarctica"
    ELSE "Unknown Region"

\* the loop returning the last region of the table that holds the point
determineBioregionLast(lat, lng) ==
    LET scan[i \in 0..Len(BIOREGIONS)] ==
            IF i = 0 THEN determineContinent(lat, lng)
            ELSE IF /\ lat >= BIOREGIONS[i].minLat /\ lat <= BIOREGIONS[i].maxLat
                    /\ lng >= BIOREGIONS[i].minLng /\ lng <= BIOREGIONS[i].maxLng
                 THEN BIOREGIONS[i].name
                 ELSE scan[i - 1]
    IN  scan[Len(BIOREGIONS)]

\* determineBioregion: for (const region of BIOREGIONS) return the first hit
determineBioregion(lat, lng) ==
    LET scan[i \in 1..Len(BIOREGIONS) + 1] ==
            IF i > Len(BIOREGIONS) THEN determineContinent(lat, lng)
            ELSE IF /\ lat >= BIOREGIONS[i].minLat /\ lat <= BIOREGIONS[i].maxLat
                    /\ lng >= BIOREGIONS[i].minLng /\ lng <= BIOREGIONS[i].maxLng
                 THEN BIOREGIONS[i].name
                 ELSE scan[i + 1]
    IN  scan[1]

\* the two thresholds taken as inclusive
RegionClassInclusive(count, total) ==
    IF count * 20 >= 3 * total THEN "native"
    ELSE IF count * 20 >= total THEN "introduced"
    ELSE "none"

\* density > 0.15 is native, density > 0.05 is introduced, with
\* density = count / total: count / total > 0.15 is count * 20 > 3 * total
RegionClass(count, total) ==
    IF count * 20 > 3 * total THEN "native"
    ELSE IF count * 20 > total THEN "introduced"
    ELSE "none"

\* getTaxonGeographicData from the region lists on.  means is the taxon's
\* establishment_means ("none" when absent) with the region of its place;
\* regionCounts is the histogram of the observations in the order the
\* regions were first seen; unbucketed counts the observations that fall in
\* no region.
getTaxonGeographicData(means, regionCounts, unbucketed) ==
    LET nativeRegions == IF means.kind = "native" /\ means.hasPlace
                         THEN <<means.region>> ELSE <<>>
        introducedRegions == IF means.kind = "introduced" /\ means.hasPlace
                             THEN <<means.region>> ELSE <<>>
        n == Len(regionCounts)
        sum[i \in 0..n] == IF i = 0 THEN 0 ELSE sum[i - 1] + regionCounts[i].count
        totalObservations == sum[n]
        \* sort((a, b) => b[1] - a[1]): descending by density, stable
        placeOf(i) == Cardinality({j \in 1..n : regionCounts[j].count > regionCounts[i].count})
                      + Cardinality({j \in 1..i : regionCounts[j].count = regionCounts[i].count})
        sortedRegions == [k \in 1..n |-> regionCounts[CHOOSE i \in 1..n : placeOf(i) = k]]
        rest == IF n = 0 THEN <<>> ELSE Tail(sortedRegions)
        classOf(entry) == RegionClass(entry.count, totalObservations)
        regionOf(entries) == [i \in 1..Len(entries) |-> entries[i].region]
    IN  IF Len(nativeRegions) = 0 /\ totalObservations + unbucketed > 0
        THEN [regions |-> regionOf(regionCounts),
              nativeRegions |->
                  IF n = 0 THEN nativeRegions
                  ELSE nativeRegions \o <<sortedRegions[1].region>>
                       \o regionOf(SelectSeq(rest, LAMBDA e : classOf(e) = "native")),
              introducedRegions |->
                  introducedRegions
                  \o regionOf(SelectSeq(rest, LAMBDA e : classOf(e) = "introduced"))]
        ELSE [regions |-> <<"Not available">>, nativeRegions |-> <<>>,
              introducedRegions |-> <<>>]

(***************************************************************************)
(* Functions checked on their own.  PureInit draws the arguments of one    *)
(* call, one action per function applies it.                               *)
(*                                                                         *)
(* "rank": the tail of searchObservationsByFeatures (sort, filter) and the *)
(* ranking of identifyWithOpenRouter, on a list of scored candidates in    *)
(* the order of the pool.  The list is given as runs of candidates of one  *)
(* rank level; the scores fall, rise or stay level along the pool.         *)
(* "bioregion": determineBioregion on the points at and next to every edge *)
(* of the two tables.                                                      *)
(* "geo": getTaxonGeographicData on a histogram of up to MaxBuckets         *)
(* regions.                                                                *)
(***************************************************************************)
MaxRuns == 3

MaxBuckets == 3

PureInit ==
    LET RunLengths == {1, 2, 5}
        RankClasses == {30, 40, 50, 60, 70}
        IdsOfRank == [r \in RankClasses |-> {id \in 1..NTaxa : Taxon(id).rank_level = r}]
        RunLists == UNION {[1..k -> [rank : RankClasses, n : RunLengths]] : k \in 1..MaxRuns}
        RanksOf(runs) ==
            LET total[k \in 0..Len(runs)] == IF k = 0 THEN 0 ELSE total[k - 1] + runs[k].n
            IN  [p \in 1..total[Len(runs)] |->
                    runs[CHOOSE k \in 1..Len(runs) : total[k - 1] < p /\ p <= total[k]].rank]
        Feasible(ranks) ==
            \A r \in RankClasses :
                Cardinality({p \in 1..Len(ranks) : ranks[p] = r}) <= Cardinality(IdsOfRank[r])
        ScoreAt(pattern, p) ==
            CASE pattern = "falling" -> Max(10, 100 - 10 * (p - 1))
              [] pattern = "rising" -> Min(100, 10 * (p - 1))
              [] OTHER -> 50
        ScoredOf(ranks, pattern) ==
            [p \in 1..Len(ranks) |->
                LET nth == Cardinality({q \in 1..p : ranks[q] = ranks[p]})
                    ids == IdsOfRank[ranks[p]]
                IN  [id |-> CHOOSE id \in ids : Cardinality({y \in ids : y <= id}) = nth,
                     observations |-> 1,
                     matchScore |-> ScoreAt(pattern, p)]]
        Around(edges) == {e + d : e \in edges, d \in {-1, 0, 1}}
        Lats == Around({BIOREGIONS[i].minLat : i \in 1..Len(BIOREGIONS)}
                       \cup {BIOREGIONS[i].maxLat : i \in 1..Len(BIOREGIONS)}
                       \cup {150, 750, -550, 350, 700, -350, 370, -100, 550, -450, -600})
        Lngs == Around({BIOREGIONS[i].minLng : i \in 1..Len(BIOREGIONS)}
                       \cup {BIOREGIONS[i].maxLng : i \in 1..Len(BIOREGIONS)}
                       \cup {-1700, -500, -800, -350, -100, 400, -200, 600, 1500, 1100, 1800})
        Regions == {"South America", "Europe", "Africa", "Asia"}
        Counts == {1, 3, 4, 16}
        Histograms ==
            {h \in UNION {[1..k -> [region : Regions, count : Counts]] : k \in 0..MaxBuckets} :
                \A i, j \in 1..Len(h) : i # j => h[i].region # h[j].region}
        Means == {[kind |-> "none", hasPlace |-> FALSE, region |-> ""],
                  [kind |-> "native", hasPlace |-> TRUE, region |-> "Europe"],
                  [kind |-> "introduced", hasPlace |-> TRUE, region |-> "Asia"]}
    IN  /\ \/ \E runs \in RunLists :
                  LET ranks == RanksOf(runs)
                  IN  /\ Feasible(ranks)
                      /\ \E pattern \in {"falling", "rising", "flat"},
                            f \in {FeatEmpty, FeatSpecific} :
                            scoreIn = [fn |-> "rank", scored |-> ScoredOf(ranks, pattern),
                                       f |-> f]
           \/ \E lat \in Lats, lng \in Lngs :
                  scoreIn = [fn |-> "bioregion", lat |-> lat, lng |-> lng]
           \/ \E means \in Means, h \in Histograms, unbucketed \in {0, 1} :
                  scoreIn = [fn |-> "geo", means |-> means, regionCounts |-> h,
                             unbucketed |-> unbucketed]
        /\ scoreOut = [fn |-> "none"]
        /\ pc = "pure"
        /\ req = NoRequest
        /\ token = TRUE
        /\ world = "empty"
        /\ calls = <<>>
        /\ responses = <<>>
        /\ currentModel = PRIMARY
        /\ data = NoData
        /\ feats = NoFeatures
        /\ match = EmptyMatch
        /\ result = NoResult
        /\ http = NoHttp
        /\ history = <<>>
        /\ other = NoOther
        /\ clock = 0
        /\ camera = NoCamera

\* the matcher's sort and filter, then the result built from its list
CalcRanking ==
    /\ pc = "pure"
    /\ scoreIn.fn = "rank"
    /\ pc' = "pureDone"
    /\ LET results == MatcherResults(scoreIn.scored, scoreIn.f)
       IN  scoreOut' = [fn |-> "rank", results |-> results,
                        identification |-> MatchResult(results, scoreIn.f)]
    /\ UNCHANGED <<scoreIn, req, token, world, calls, responses, currentModel, data,
                   feats, match, result, http, history, loopVars, camera>>

CalcBioregion ==
    /\ pc = "pure"
    /\ scoreIn.fn = "bioregion"
    /\ pc' = "pureDone"
    /\ scoreOut' = [fn |-> "bioregion", name |-> determineBioregion(scoreIn.lat, scoreIn.lng)]
    /\ UNCHANGED <<scoreIn, req, token, world, calls, responses, currentModel, data,
                   feats, match, result, http, history, loopVars, camera>>

CalcGeographic ==
    /\ pc = "pure"
    /\ scoreIn.fn = "geo"
    /\ pc' = "pureDone"
    /\ scoreOut' = [fn |-> "geo",
                    data |-> getTaxonGeographicData(scoreIn.means, scoreIn.regionCounts,
                                                    scoreIn.unbucketed)]
    /\ UNCHANGED <<scoreIn, req, token, world, calls, responses, currentModel, data,
                   feats, match, result, http, history, loopVars, camera>>

PureNext == CalcRanking \/ CalcBioregion \/ CalcGeographic

SpecPure == PureInit /\ [][PureNext]_vars

\* the function named has been applied to the drawn arguments
Applied(fn) == pc = "pureDone" /\ scoreIn.fn = fn

\* the place of a taxon id in a list of candidates (0 when absent)
PlaceOf(ms, id) ==
    IF \E i \in 1..Len(ms) : ms[i].id = id
    THEN CHOOSE i \in 1..Len(ms) : ms[i].id = id
    ELSE 0

\* the candidates the rank-tier step starts from
TierBase ==
    ColorFiltered(SelectSeq(scoreOut.results, LAMBDA m : m.matchScore > 5), scoreIn.f)

\* C14: the suggestions are the candidates of the most specific tier with at
\* least 3 members, tried as rank level >= 70, then >= 60, then >= 50, and
\* all candidates when no tier has 3 members (up to the first 10)
C14_MostSpecificTierOfThree ==
    Applied("rank") =>
        LET least == IF Len(RankAtLeast(TierBase, 70)) >= 3 THEN 70
                     ELSE IF Len(RankAtLeast(TierBase, 60)) >= 3 THEN 60
                     ELSE IF Len(RankAtLeast(TierBase, 50)) >= 3 THEN 50
                     ELSE 0
            kept == {TierBase[i].id : i \in {k \in 1..Len(TierBase) :
                                                Taxon(TierBase[k].id).rank_level >= least}}
            shown == {scoreOut.identification.suggestions[i].taxonId :
                        i \in 1..Len(scoreOut.identification.suggestions)}
        IN  /\ shown \subseteq kept
            /\ Cardinality(kept) <= 10 => shown = kept
            /\ Len(scoreOut.identification.suggestions) = Min(10, Cardinality(kept))

\* C14 witness: 2 species-level and 5 genus-level candidates and one broader
\* candidate were ranked, and no suggestion has a rank level below 60
C14_Witness ==
    /\ Applied("rank")
    /\ Len(RankAtLeast(TierBase, 70)) = 2
    /\ Len(RankAtLeast(TierBase, 60)) = 7
    /\ Len(TierBase) > 7
    /\ Len(scoreOut.identification.suggestions) = 7
    /\ \A i \in 1..7 : scoreOut.identification.suggestions[i].rankLevel >= 60

\* C15: in the suggestions no candidate of rank level <= 30 stands before a
\* candidate of rank level >= 50
C15_GenericNeverAheadOfSpecific ==
    Applied("rank") =>
        LET shown == scoreOut.identification.suggestions
        IN  \A i, j \in 1..Len(shown) :
                i < j => ~(shown[i].rankLevel <= 30 /\ shown[j].rankLevel >= 50)

\* C16 as stated: the suggestions are in descending order of matchScore
C16_FinalListSortedByScore ==
    Applied("rank") =>
        LET shown == scoreOut.identification.suggestions
        IN  \A i, j \in 1..Len(shown) : i < j => shown[i].confidence >= shown[j].confidence

\* C16: the matcher's list is in descending order of matchScore and equal
\* scores keep the order of the pool; the suggestions keep the matcher's
\* order, except that when the first of them in the matcher's order has a
\* rank level <= 30 and one of rank level > 40 is among them, all entries of
\* rank level > 40 stand before those of rank level <= 40, each group in the
\* matcher's order
C16_SortedExceptPromotion ==
    Applied("rank") =>
        LET shown == scoreOut.identification.suggestions
            results == scoreOut.results
        IN  /\ \A i, j \in 1..Len(results) :
                  i < j =>
                    \/ results[i].matchScore > results[j].matchScore
                    \/ /\ results[i].matchScore = results[j].matchScore
                       /\ PlaceOf(scoreIn.scored, results[i].id)
                            < PlaceOf(scoreIn.scored, results[j].id)
            /\ \A i, j \in 1..Len(shown) :
                  i < j =>
                    \/ PlaceOf(results, shown[i].taxonId) < PlaceOf(results, shown[j].taxonId)
                    \/ /\ shown[i].rankLevel > 40 /\ shown[j].rankLevel <= 40
                       /\ \A k, l \in 1..Len(shown) :
                             (shown[k].rankLevel > 40 /\ shown[l].rankLevel <= 40) => k < l
                       /\ \E k \in 1..Len(shown) :
                             /\ shown[k].rankLevel <= 30
                             /\ \A l \in 1..Len(shown) :
                                   PlaceOf(results, shown[k].taxonId)
                                     <= PlaceOf(results, shown[l].taxonId)

\* C16 witness: candidates with equal scores were sorted out of a pool whose
\* scores rise, and a promoted entry stands before one that scores more
C16_Witness ==
    /\ Applied("rank")
    /\ \E i, j \in 1..Len(scoreOut.results) :
          /\ i < j
          /\ scoreOut.results[i].matchScore = scoreOut.results[j].matchScore
          /\ \E k \in 1..Len(scoreIn.scored) - 1 :
                scoreIn.scored[k].matchScore < scoreIn.scored[k + 1].matchScore
    /\ \E i, j \in 1..Len(scoreOut.identification.suggestions) :
          /\ i < j
          /\ scoreOut.identification.suggestions[i].confidence
               < scoreOut.identification.suggestions[j].confidence

\* C17: when the features name a species or genus, have distinctive
\* features, and the winning candidate is of order level or broader, then
\* name, scientific name and level of the result are those of the features,
\* the confidence is the winning candidate's matchScore and the suggestions
\* are candidates of the database
C17_SpecificIdentificationShown ==
    LET given == scoreIn.f.specific
        shown == scoreOut.identification
    IN  (/\ Applied("rank")
         /\ given.present /\ given.level \in {"species", "genus"}
         /\ scoreIn.f.hasVisual /\ Len(scoreIn.f.distinctive) > 0
         /\ Taxon(scoreOut.results[1].id).rank_level <= 40) =>
            /\ shown.name = NameText(given.taxon)
            /\ given.scientificName # "" =>
                  shown.scientificName = NameText(given.scientificName)
            /\ shown.taxonomicLevel = given.level
            /\ shown.confidence = scoreOut.results[1].matchScore
            /\ \A i \in 1..Len(shown.suggestions) :
                  PlaceOf(scoreOut.results, shown.suggestions[i].taxonId) > 0

C20_HistogramClassification ==
    (Applied("geo") /\ scoreIn.means.kind = "none" /\ Len(scoreIn.regionCounts) > 0) =>
        LET h == scoreIn.regionCounts
            total == LET sum[i \in 0..Len(h)] == IF i = 0 THEN 0 ELSE sum[i - 1] + h[i].count
                     IN  sum[Len(h)]
            top == CHOOSE i \in 1..Len(h) :
                      /\ \A j \in 1..Len(h) : h[j].count <= h[i].count
                      /\ \A j \in 1..(i - 1) : h[j].count < h[i].count
            native == {h[i].region : i \in {k \in 1..Len(h) :
                                               k = top \/ 100 * h[k].count > 15 * total}}
            introduced == {h[i].region : i \in {k \in 1..Len(h) :
                                               /\ k # top
                                               /\ 100 * h[k].count > 5 * total
                                               /\ 100 * h[k].count <= 15 * total}}
        IN  /\ Range(scoreOut.data.nativeRegions) = native
            /\ Range(scoreOut.data.introducedRegions) = introduced
            /\ Len(scoreOut.data.nativeRegions) = Cardinality(native)
            /\ Len(scoreOut.data.introducedRegions) = Cardinality(introduced)
            /\ scoreOut.data.nativeRegions[1] = h[top].region

\* C20 witness: buckets of 16, 3 and 1 of 20 observations: the second has
\* density 0.15 exactly and is introduced, the third has 0.05 exactly and is
\* in neither list
C20_Witness ==
    /\ Applied("geo")
    /\ scoreIn.means.kind = "none"
    /\ Len(scoreIn.regionCounts) = 3
    /\ scoreIn.regionCounts[1].count = 1
    /\ scoreIn.regionCounts[2].count = 16
    /\ scoreIn.regionCounts[3].count = 3
    /\ scoreOut.data.nativeRegions = <<scoreIn.regionCounts[2].region>>
    /\ scoreOut.data.introducedRegions = <<scoreIn.regionCounts[3].region>>

\* C28: in every result of getTaxonGeographicData no region is listed both
\* in nativeRegions and in introducedRegions
C28_NativeIntroducedDisjoint ==
    Applied("geo") =>
        Range(scoreOut.data.nativeRegions) \cap Range(scoreOut.data.introducedRegions) = {}

\* C29: determineBioregion never returns "Pantanal"
C29_NeverPantanal ==
    Applied("bioregion") => scoreOut.name # "Pantanal"

\* C29 witness: a point inside the Pantanal box, west of the Atlantic Forest
\* box, is resolved to the earlier-listed Cerrado
C29_Witness ==
    /\ Applied("bioregion")
    /\ scoreIn.lat >= -200 /\ scoreIn.lat <= -150
    /\ scoreIn.lng >= -580 /\ scoreIn.lng < -550
    /\ scoreOut.name = "Cerrado"

(***************************************************************************)
(* Two requests on one server.  Node runs the code of one request at a     *)
(* time, and at every await the other request may run.  The variables of   *)
(* the pipeline are the locals of the request whose code runs; other holds *)
(* the locals of the request that waits.  The environment, memoryDb and    *)
(* the clock belong to the process.                                        *)
(***************************************************************************)
\* the milliseconds that pass while the two requests are served
MaxClock == 1

\* the locals of handler, identifyWithOpenRouter and
\* searchObservationsByFeatures
Locals ==
    [pc |-> pc, req |-> req, calls |-> calls, responses |-> responses,
     currentModel |-> currentModel, data |-> data, feats |-> feats, match |-> match,
     result |-> result, http |-> http]

\* a request that has not arrived yet
IdleLocals ==
    [pc |-> "idle", req |-> NoRequest, calls |-> <<>>, responses |-> <<>>,
     currentModel |-> PRIMARY, data |-> NoData, feats |-> NoFeatures,
     match |-> EmptyMatch, result |-> NoResult, http |-> NoHttp]

\* currentModel as a variable of the module: the request that resumes finds
\* the value the other request left
ResumedModelShared(closure) == currentModel

\* let currentModel is declared inside identifyWithOpenRouter: the request
\* that resumes finds its own
ResumedModel(closure) == closure.currentModel

TwoInit ==
    /\ pc = "idle"
    /\ req = NoRequest
    /\ token = TRUE
    /\ world = "small"
    /\ calls = <<>>
    /\ responses = <<>>
    /\ currentModel = PRIMARY
    /\ data = NoData
    /\ feats = NoFeatures
    /\ match = EmptyMatch
    /\ result = NoResult
    /\ http = NoHttp
    /\ history = <<>>
    /\ scoreIn = NoCall
    /\ scoreOut = -1
    /\ other = IdleLocals
    /\ clock = 0
    /\ camera = NoCamera

\* the running request waits (or has answered) and the other one, which has
\* not answered yet, runs
Switch ==
    /\ other.pc \notin {"none", "done"}
    /\ other' = Locals
    /\ pc' = other.pc
    /\ req' = other.req
    /\ calls' = other.calls
    /\ responses' = other.responses
    /\ currentModel' = ResumedModel(other)
    /\ data' = other.data
    /\ feats' = other.feats
    /\ match' = other.match
    /\ result' = other.result
    /\ http' = other.http
    /\ UNCHANGED <<token, world, history, scoreVars, clock, camera>>

\* a millisecond passes
Tick ==
    /\ clock < MaxClock
    /\ clock' = clock + 1
    /\ UNCHANGED <<reqVars, scoreVars, other, camera>>

\* The requests and the upstream answers drawn when two requests are served:
\* POST requests with an image, answers 200 and 429 of the AI endpoint, four
\* bodies (no JSON; features of a plant; features with a specific
\* identification; a rate-limit error), no failing database call.
TwoBodies ==
    {NoData,
     Body("none", "features", TRUE, FeatOrchid),
     Body("none", "features", FALSE, FeatSpecific),
     Body("code429", "nochoices", FALSE, NoFeatures)}

TwoCase ==
    /\ req.method = "POST" => (req.image /\ req.location \in {NoLocation, LocManaus})
    /\ \A i \in 1..Len(responses) : responses[i].status \in {200, 429}
    /\ data \in TwoBodies
    /\ match.failedSearch = {} /\ match.failedBeetle = {} /\ match.failedFetch = {}

TwoNext ==
    \/ HandlerStart /\ TwoCase'
    \/ PrimaryResponse /\ TwoCase'
    \/ BackupResponse /\ TwoCase'
    \/ FetchRejects /\ TwoCase'
    \/ ReadErrorBody /\ TwoCase'
    \/ ReadOkBody /\ TwoCase'
    \/ GenericSearches /\ TwoCase'
    \/ BeetleSearches /\ TwoCase'
    \/ FetchAndScore /\ TwoCase'
    \/ GeoData /\ TwoCase'
    \/ Legacy /\ TwoCase'
    \/ Backup2Response /\ TwoCase'
    \/ Backup2Rejects /\ TwoCase'
    \/ Respond /\ TwoCase'
    \/ Switch
    \/ Tick

SpecTwo == TwoInit /\ [][TwoNext]_vars

\* C27: any two history records have distinct ids
C27_DistinctIds ==
    \A i, j \in 1..Len(history) : i # j => history[i].id # history[j].id

\* what a request that has answered holds, computed from its own request,
\* the answers to its own calls and the database alone
OwnRun(l) ==
    (l.pc = "done" /\ l.req.method = "POST" /\ l.req.image) =>
        /\ l.calls[1] = PRIMARY
        /\ l.currentModel = IF \E i \in 1..Len(l.calls) : l.calls[i] = BACKUP
                            THEN BACKUP ELSE PRIMARY
        /\ Len(l.responses) > 0 =>
              /\ ShouldTryBackup(l.responses[1].status) => l.calls = <<PRIMARY, BACKUP>>
              /\ l.calls = <<PRIMARY, BACKUP>> =>
                    \/ ShouldTryBackup(l.responses[1].status)
                    \/ Ok(l.responses[1].status)
        /\ \A i \in 1..Len(l.responses) : l.responses[i].model = l.calls[i]
        \* (the body of a backup model called for an error in the primary's
        \* body replaces the body the features were taken from)
        /\ ~(/\ l.calls = <<PRIMARY, BACKUP>> /\ Len(l.responses) > 0
             /\ ~ShouldTryBackup(l.responses[1].status)) =>
              l.feats = IF l.data.json /\ HasFeatureExtraction(l.data)
                        THEN RewriteFeatures(l.data.feat, l.req.location) ELSE NoFeatures
        /\ l.match.returned =>
              LET queries == SearchQueries(l.feats, l.req.location)
                  beetles == checkForKnownAmazonianBeetles(l.feats, l.req.location)
                  searchResults == [i \in 1..Len(queries) |-> DB(world, queries[i])]
                  beetleResults ==
                      [i \in 1..Len(beetles) |->
                          IF i \in l.match.failedBeetle THEN <<>>
                          ELSE DB(world, [prefix |-> FALSE, term |-> beetles[i], perPage |-> 3])]
                  allTaxa == MergeTaxa(beetleResults, searchResults)
                  scored == ScoredCandidates(allTaxa, l.match.failedFetch, l.feats,
                                             l.req.location)
              IN  /\ l.match.allTaxa = allTaxa
                  /\ l.match.scored = scored
                  /\ l.match.results = MatcherResults(scored, l.feats)
        /\ (l.http.status = 200 /\ l.result.taxonId # 0) =>
              l.result = MatchResult(l.match.results, l.feats)
        /\ (l.http.status = 200 /\ l.result.taxonId = 0 /\ l.result.modelUsed # "") =>
              l.result.modelUsed = l.currentModel

\* C24: for any interleaving of two requests, the model chosen, the pool,
\* the scores, the ranking and the result of each depend only on its own
\* request and the upstream answers to its own calls
C24_RequestsIndependent == OwnRun(Locals) /\ OwnRun(other)

\* C24 witness: both requests have answered 200, one on the primary model
\* with a database match, the other on the backup model
C24_Witness ==
    /\ pc = "done" /\ other.pc = "done"
    /\ http.status = 200 /\ other.http.status = 200
    /\ currentModel = PRIMARY /\ other.currentModel = BACKUP
    /\ result.taxonId # 0
    /\ other.req.location # req.location
    /\ history = <<[id |-> DateToString(0), timestamp |-> 0, location |-> other.req.location,
                     results |-> other.result, type |-> other.result.category],
                    [id |-> DateToString(1), timestamp |-> 1, location |-> req.location,
                     results |-> result, type |-> result.category]>>

(***************************************************************************)
(* The camera of ImageUploader (src/unnamed/part_000) and of CameraCapture *)
(* (src/components/CameraCapture.js).  camera holds the component's state: *)
(*   loading   cameraLoading / isCapturing                                 *)
(*   active    cameraActive / isCameraActive                               *)
(*   error     which message setError holds, "none" for null               *)
(*   hasCamera CameraCapture only                                          *)
(*   stream, location, image   whether the state is not null (image is     *)
(*             preview / capturedImage)                                    *)
(*   handler   videoRef.current.onloadedmetadata is set                    *)
(*   devices, media, geo   the browser's pending answers: to               *)
(*             enumerateDevices, to getUserMedia, and the number of        *)
(*             getCurrentPosition calls not yet answered                   *)
(***************************************************************************)
\* the getCurrentPosition calls that may wait for an answer at one time
MaxGeoRequests == 2

Components == {"ImageUploader", "CameraCapture"}

\* the state after the first render and its effects: CameraCapture calls
\* checkCameraAvailability and getCurrentPosition
Mounted(component) ==
    [component |-> component, loading |-> FALSE, active |-> FALSE, error |-> "none",
     hasCamera |-> TRUE, stream |-> FALSE, location |-> FALSE, image |-> FALSE,
     handler |-> FALSE,
     devices |-> component = "CameraCapture", media |-> FALSE,
     geo |-> IF component = "CameraCapture" THEN 1 ELSE 0]

\* the <video ref={videoRef}> element is rendered, so videoRef.current is set
VideoMounted(c) == c.active /\ ~c.image

\* the buttons rendered, and whether a click reaches the handler
StartRendered(c) ==
    IF c.component = "ImageUploader"
    THEN ~c.image /\ ~c.active /\ ~c.loading
    ELSE ~c.image /\ ~c.active /\ ~c.loading /\ c.hasCamera

\* startCamera up to its await
startCamera(c) ==
    [c EXCEPT !.error = "none", !.loading = TRUE, !.media = TRUE,
              !.geo = IF c.location THEN @ ELSE @ + 1]

\* startCamera after getUserMedia resolved: setStream, and the handler of
\* loadedmetadata when videoRef.current is set
Granted(c) ==
    [c EXCEPT !.media = FALSE, !.stream = TRUE, !.handler = VideoMounted(c)]

\* the catch of startCamera
Rejected(c, name) ==
    [c EXCEPT !.media = FALSE, !.loading = FALSE,
              !.error = CASE name = "NotAllowedError" -> "denied"
                          [] name = "NotFoundError" -> "notFound"
                          [] OTHER -> "other",
              !.hasCamera = IF c.component = "CameraCapture" /\ name = "NotFoundError"
                            THEN FALSE ELSE @]

\* videoRef.current.onloadedmetadata
LoadedMetadata(c) == [c EXCEPT !.handler = FALSE, !.active = TRUE, !.loading = FALSE]

\* stopCamera of ImageUploader; the end of captureImage of CameraCapture
\* stops the stream only when there is one
stopCamera(c) ==
    IF c.component = "ImageUploader" \/ c.stream
    THEN [c EXCEPT !.stream = FALSE, !.active = FALSE]
    ELSE c

captureImage(c) ==
    IF ~VideoMounted(c) THEN c ELSE stopCamera([c EXCEPT !.image = TRUE])

CameraInit ==
    /\ camera \in {Mounted(component) : component \in Components}
    /\ pc = "camera"
    /\ req = NoRequest
    /\ token = TRUE
    /\ world = "empty"
    /\ calls = <<>>
    /\ responses = <<>>
    /\ currentModel = PRIMARY
    /\ data = NoData
    /\ feats = NoFeatures
    /\ match = EmptyMatch
    /\ result = NoResult
    /\ http = NoHttp
    /\ history = <<>>
    /\ scoreIn = NoCall
    /\ scoreOut = -1
    /\ other = NoOther
    /\ clock = 0

\* the user clicks a button that is rendered: start, capture, stop (of
\* ImageUploader), retake (of CameraCapture), remove image (of ImageUploader)
UserClick ==
    /\ pc = "camera"
    /\ \E button \in {"start", "capture", "stop", "retake", "remove"} :
         CASE button = "start" ->
                 /\ StartRendered(camera)
                 /\ camera.location \/ camera.geo < MaxGeoRequests
                 /\ camera' = startCamera(camera)
           [] button = "capture" ->
                 /\ VideoMounted(camera)
                 /\ camera' = captureImage(camera)
           [] button = "stop" ->
                 /\ camera.component = "ImageUploader" /\ VideoMounted(camera)
                 /\ camera' = stopCamera(camera)
           [] button = "retake" ->
                 /\ camera.component = "CameraCapture" /\ camera.image
                 /\ camera.location \/ camera.geo < MaxGeoRequests
                 /\ camera' = startCamera([camera EXCEPT !.image = FALSE])
           [] OTHER ->
                 /\ camera.component = "ImageUploader" /\ camera.image
                 /\ camera' = [camera EXCEPT !.image = FALSE, !.location = FALSE]
    /\ UNCHANGED <<reqVars, scoreVars, loopVars>>

\* the browser answers: enumerateDevices resolves with or without a video
\* input or rejects, getCurrentPosition succeeds or fails, getUserMedia
\* resolves or rejects, the video fires loadedmetadata
BrowserEvent ==
    /\ pc = "camera"
    /\ \/ /\ camera.devices
          /\ \E answer \in {"video", "noVideo", "rejected"} :
               camera' = [camera EXCEPT !.devices = FALSE,
                             !.hasCamera = answer = "video",
                             !.error = IF answer = "rejected" THEN "detect" ELSE @]
       \/ /\ camera.geo > 0
          /\ \E success \in BOOLEAN :
               camera' = [camera EXCEPT !.geo = @ - 1,
                             !.location = IF success THEN TRUE ELSE @]
       \/ /\ camera.media
          /\ \/ camera' = Granted(camera)
             \/ \E name \in {"NotAllowedError", "NotFoundError", "AbortError"} :
                  camera' = Rejected(camera, name)
       \/ /\ camera.handler
          /\ camera' = LoadedMetadata(camera)
    /\ UNCHANGED <<reqVars, scoreVars, loopVars>>

CameraNext == UserClick \/ BrowserEvent

\* the browser answers every call in the end; the user need not click
SpecCamera == CameraInit /\ [][CameraNext]_vars /\ WF_vars(BrowserEvent)

\* C30: once the browser has granted a media stream, in the end the camera
\* is active, or an error is shown, or the component is no longer loading
\* (the start button is no longer disabled)
C30_LeavesLoading ==
    (camera.component # "none" /\ camera.stream)
        ~> (camera.active \/ camera.error # "none" \/ ~camera.loading)

=============================================================================
